---------------------------- MODULE Spec2Model ----------------------------
(***************************************************************************)
(* A model of jsdev(source, tags, comments) of src/jsdev.js: the tagged    *)
(* comment preprocessor.  Text is a sequence of one-character strings.     *)
(* The scanning routines get, peek, string, regexp, condition, stuff and   *)
(* expand are operators on a record of the closure's variables; every      *)
(* iteration of the loop of process() is one action.                       *)
(***************************************************************************)
EXTENDS Integers, Sequences, FiniteSets, TLC

VARIABLES
    source,     \* the caller's source argument
    tags,       \* the caller's tag list (jsdev rewrites its entries)
    comments,   \* the caller's comments argument
    lines,      \* var lines
    line,       \* var line
    line_nr,    \* var line_nr
    methods,    \* var methods
    outputs,    \* var outputs: the fragments pushed by emit
    preview,    \* var preview
    c,          \* process(): var c
    left,       \* process(): var left
    pc,         \* where the call stands
    result,     \* what the call gave its caller
    calls,      \* the results of the caller's earlier calls
    declared    \* the tag list as the caller wrote it, before any call

vars == <<source, tags, comments, lines, line, line_nr, methods, outputs,
          preview, c, left, pc, result, calls, declared>>

-----------------------------------------------------------------------------
(* Values.                                                                 *)

\* null and undefined: the end of input of get, an empty preview
null == "null"
\* the number 0 that process() stores in c and in left
Zero == "zero"
\* the character ` (a TLA+ string cannot hold it)
BackQuote == "backquote"

\* char codes of the characters the model uses
CharCode(ch) ==
    CASE ch = "\t" -> 9   [] ch = "\n" -> 10  [] ch = "\r" -> 13
      [] ch = " " -> 32   [] ch = "!" -> 33   [] ch = "\"" -> 34
      [] ch = "$" -> 36   [] ch = "&" -> 38   [] ch = "'" -> 39
      [] ch = "(" -> 40   [] ch = ")" -> 41   [] ch = "*" -> 42
      [] ch = "," -> 44   [] ch = "." -> 46   [] ch = "/" -> 47
      [] ch = "0" -> 48   [] ch = "2" -> 50   [] ch = ":" -> 58
      [] ch = ";" -> 59   [] ch = "=" -> 61   [] ch = "?" -> 63
      [] ch = "A" -> 65   [] ch = "B" -> 66   [] ch = "[" -> 91
      [] ch = "\\" -> 92  [] ch = "]" -> 93   [] ch = "_" -> 95
      [] ch = BackQuote -> 96
      [] ch = "a" -> 97   [] ch = "b" -> 98   [] ch = "d" -> 100
      [] ch = "l" -> 108  [] ch = "m" -> 109  [] ch = "u" -> 117
      [] ch = "x" -> 120  [] ch = "y" -> 121  [] ch = "{" -> 123
      [] ch = "|" -> 124  [] ch = "}" -> 125
      [] OTHER -> 0

\* c > ' ' of the code: false for null and for the number 0
GtSpace(ch) == CharCode(ch) > 32

\* a line the code holds: a string, or null/undefined
NoLine == [str |-> FALSE, s |-> <<>>]
StrLine(s) == [str |-> TRUE, s |-> s]

\* the arguments of a call
StringArg(s) == [kind |-> "string", val |-> s]
ArrayArg(a) == [kind |-> "array", val |-> a]
NoArg == [kind |-> "undefined", val |-> <<>>]

NoResult == [status |-> "none", text |-> <<>>, lineno |-> 0, message |-> ""]

\* a faulty HeadPrefix: no space after the slashes
HeadPrefixBare == <<"/", "/">>

\* the string constants of the code, as characters
IfSp == <<"i", "f", " ">>
SlashStar == <<"/", "*">>
CloseCall == <<")", ";", "}">>
HeadPrefix == <<"/", "/", " ">>

-----------------------------------------------------------------------------
(* Helpers of the closure.                                                 *)

is_alphanum(ch) ==
    LET k == CharCode(ch) IN
    \/ (k >= 97 /\ k <= 122)
    \/ (k >= 48 /\ k <= 57)
    \/ (k >= 65 /\ k <= 90)
    \/ ch = "_"
    \/ ch = "$"
    \/ ch = "."

pre_regexp(lf) ==
    lf \in {"(", ",", "=", ":", "[", "!", "&", "|", "?", "{", "}", ";"}

IsQuote(ch) == ch \in {"'", "\"", BackQuote}

\* outputs.join('')
RECURSIVE Join(_)
Join(frags) ==
    IF frags = <<>> THEN <<>> ELSE Head(frags) \o Join(Tail(frags))

\* The closure's variables as one record s; s.c is the caller's local c and
\* s.err the pending exception ("" when none was thrown).
\* F applied to x, x being worked out once, before F looks at it: a call's
\* argument is a value by the time the body runs
Once(F(_), x) == CHOOSE r \in {F(v) : v \in {x}} : TRUE

St == [line |-> line, line_nr |-> line_nr, preview |-> preview,
       outputs |-> outputs, c |-> c, err |-> "", errline |-> 0,
       ret |-> FALSE, lf |-> null, paren |-> 0]

Failed(s) == s.err # ""

\* error(message): the line number is read when the exception is built
error(s, message) ==
    Once(LAMBDA v :
        IF Failed(v) THEN v
        ELSE [v EXCEPT !.err = message, !.errline = v.line_nr + 1], s)

\* emit(string): the empty string is not pushed
emit(s, str) ==
    IF str = <<>> THEN s ELSE [s EXCEPT !.outputs = Append(@, str)]

\* emit(c) of one character; null and 0 are falsy and not pushed
emitc(s, ch) ==
    IF ch = null \/ ch = Zero THEN s ELSE emit(s, <<ch>>)

\* lines[i], undefined outside the array
LineAt(i) ==
    IF i >= 0 /\ i < Len(lines) THEN StrLine(lines[i + 1]) ELSE NoLine

\* a faulty next_line: an empty line is taken for the end of the input
next_line_bare(s, nr, ln) ==
    IF ln.s = <<>>
    THEN [s EXCEPT !.line_nr = nr, !.line = NoLine, !.c = null]
    ELSE [s EXCEPT !.line_nr = nr, !.c = Head(ln.s),
                   !.line = StrLine(Tail(ln.s))]

\* get(), no character left in line: the line feed that ends a line held
\* as a string, or else the move to the next line ln, of number nr
next_line(s, nr, ln) ==
    IF ln.s = <<>>
    THEN [s EXCEPT !.line_nr = nr, !.line = NoLine,
                   !.c = IF ln.str THEN "\n" ELSE null]
    ELSE [s EXCEPT !.line_nr = nr, !.c = Head(ln.s),
                   !.line = StrLine(Tail(ln.s))]

\* get(): the character read is the record's c
advance(s) ==
    Once(LAMBDA v :
        IF v.preview # null
        THEN [v EXCEPT !.c = v.preview, !.preview = null]
        ELSE IF v.line.s = <<>>
        THEN IF v.line.str
             THEN [v EXCEPT !.c = "\n", !.line = NoLine]
             ELSE next_line(v, v.line_nr + 1, LineAt(v.line_nr + 1))
        ELSE [v EXCEPT !.c = Head(v.line.s), !.line = StrLine(Tail(v.line.s))], s)

\* get(): if (echo) { emit(c); }
echoed(r, echo) ==
    Once(LAMBDA v :
        IF echo THEN emitc(v, v.c) ELSE v, r)

get(s, echo) == echoed(advance(s), echo)

\* peek(): preview = get(false); c is the caller's and is kept
previewed(g, callers_c) ==
    Once(LAMBDA v :
        [v EXCEPT !.preview = v.c, !.c = callers_c], g)

\* peek(): the value is the record's preview
peek(s) ==
    Once(LAMBDA v :
        IF v.preview # null THEN v ELSE previewed(get(v, FALSE), v.c), s)

\* a faulty unget: the character is not put back
unget_drop(s, ch) == s

unget(s, ch) == [s EXCEPT !.preview = ch]

-----------------------------------------------------------------------------
(* The literal skippers.  Every while (true) loop of the code is a pair:   *)
(* X_step is one iteration, which sets ret when it returns, and X_loop     *)
(* repeats it until it returns or throws.                                  *)

Stopped(s) == s.ret \/ Failed(s)

Return(s) == [s EXCEPT !.ret = TRUE]
Returned(s) == [s EXCEPT !.ret = FALSE]

\* a faulty peek_if_star: the character after a star is never looked at
peek_if_star_never(s, in_comment) == s

\* peek() as the last operand of in_comment && c === '*' && peek() === '/'
peek_if_star(s, in_comment) ==
    Once(LAMBDA v :
        IF in_comment /\ v.c = "*" THEN peek(v) ELSE v, s)

\* a faulty escape: a backslash is a character like any other
escape_none(s) == s

\* if (c === '\\') { c = get(true); }
escape(s) ==
    Once(LAMBDA v :
        IF v.c = "\\" THEN get(v, TRUE) ELSE v, s)

\* a faulty string_tests: a close comment inside the string goes unnoticed
string_tests_lax(s, in_comment, was) ==
    IF s.c = null
    THEN error([s EXCEPT !.line_nr = was], "unterminated string literal.")
    ELSE s

\* string(): the two tests that end an iteration
string_tests(s, in_comment, was) ==
    Once(LAMBDA v :
        IF in_comment /\ v.c = "*" /\ v.preview = "/"
        THEN error(v, "unexpected close comment in string.")
        ELSE IF v.c = null
        THEN error([v EXCEPT !.line_nr = was], "unterminated string literal.")
        ELSE v, s)

\* string(): an iteration, after c = get(true)
string_body(s, quote, in_comment, was) ==
    Once(LAMBDA v :
        IF v.c = quote THEN Return(v)
        ELSE string_tests(peek_if_star(escape(v), in_comment), in_comment, was), s)

\* string(): one iteration; was is the line number at entry
string_step(s, quote, in_comment, was) ==
    string_body(get(s, TRUE), quote, in_comment, was)

RECURSIVE string_loop(_, _, _, _)
string_loop(s, quote, in_comment, was) ==
    IF Stopped(s) THEN Returned(s)
    ELSE Once(LAMBDA n : string_loop(n, quote, in_comment, was),
              string_step(s, quote, in_comment, was))

string(s, quote, in_comment) ==
    Once(LAMBDA v :
        string_loop(v, quote, in_comment, v.line_nr), s)

\* regexp(), the loop over a bracketed set: the two tests that end an
\* iteration
regexp_set_tests(s, in_comment) ==
    Once(LAMBDA v :
        IF in_comment /\ v.c = "*" /\ v.preview = "/"
        THEN error(v, "unexpected close comment in regexp.")
        ELSE IF v.c = null
        THEN error(v, "unterminated set in Regular Expression literal.")
        ELSE v, s)

\* regexp(), the loop over a bracketed set: an iteration, after
\* c = get(true); ret is the break at the closing bracket
regexp_set_body(s, in_comment) ==
    Once(LAMBDA v :
        IF v.c = "]" THEN Return(v)
        ELSE regexp_set_tests(peek_if_star(escape(v), in_comment), in_comment), s)

regexp_set_step(s, in_comment) == regexp_set_body(get(s, TRUE), in_comment)

RECURSIVE regexp_set(_, _)
regexp_set(s, in_comment) ==
    IF Stopped(s) THEN Returned(s)
    ELSE Once(LAMBDA n : regexp_set(n, in_comment),
              regexp_set_step(s, in_comment))

\* regexp(): the two tests that end an iteration of the outer loop
regexp_tests(s, in_comment, was) ==
    Once(LAMBDA v :
        IF Failed(v) THEN v
        ELSE IF in_comment /\ v.c = "*" /\ v.preview = "/"
        THEN error(v, "unexpected comment.")
        ELSE IF v.c = null
        THEN error([v EXCEPT !.line_nr = was], "unterminated regexp literal.")
        ELSE v, s)

\* a faulty regexp_end: what follows the closing slash is not looked at
regexp_end_lax(s, in_comment) == Return(s)

\* regexp(): the slash that ends the literal, after peek() if in_comment
regexp_end(s, in_comment) ==
    Once(LAMBDA v :
        IF in_comment /\ (v.preview = "/" \/ v.preview = "*")
        THEN error(v, "unexpected comment.")
        ELSE Return(v), s)

\* regexp(): the if/else chain on c of the outer loop; a set that threw
\* skips the tests
regexp_chain(s, in_comment) ==
    Once(LAMBDA v :
        IF v.c = "[" THEN regexp_set(v, in_comment)
        ELSE IF v.c = "\\" THEN get(v, TRUE)
        ELSE v, s)

\* regexp(): an iteration of the outer loop, after c = get(true)
regexp_body(s, in_comment, was) ==
    Once(LAMBDA v :
        IF v.c = "/"
        THEN regexp_end(IF in_comment THEN peek(v) ELSE v, in_comment)
        ELSE regexp_tests(peek_if_star(regexp_chain(v, in_comment), in_comment),
                          in_comment, was), s)

regexp_step(s, in_comment, was) == regexp_body(get(s, TRUE), in_comment, was)

RECURSIVE regexp_loop(_, _, _)
regexp_loop(s, in_comment, was) ==
    IF Stopped(s) THEN Returned(s)
    ELSE Once(LAMBDA n : regexp_loop(n, in_comment, was),
              regexp_step(s, in_comment, was))

regexp(s, in_comment) ==
    Once(LAMBDA v :
        regexp_loop(v, in_comment, v.line_nr), s)

-----------------------------------------------------------------------------
(* The pattern extractors.  Their locals left and paren are the fields lf  *)
(* and paren of the record.                                                *)

IsOpener(ch) == ch = "(" \/ ch = "{" \/ ch = "["
IsCloser(ch) == ch = ")" \/ ch = "}" \/ ch = "]"

\* if (c > ' ') { left = c; } at the end of an iteration; ch is the
\* iteration's c, which a nested string() or regexp() does not change
SetLeft(s, ch) ==
    Once(LAMBDA v :
        IF Failed(v) THEN v
        ELSE IF GtSpace(ch) THEN [v EXCEPT !.lf = ch, !.c = ch]
        ELSE [v EXCEPT !.c = ch], s)

\* a slash inside a condition or a stuff, after peek(): a comment is
\* refused, and regexp(true) follows one of pre_regexp
slash(s) ==
    Once(LAMBDA v :
        IF v.preview = "/" \/ v.preview = "*"
        THEN error(v, "unexpected comment.")
        ELSE IF pre_regexp(v.lf) THEN regexp(v, TRUE) ELSE v, s)

\* a quote or a slash inside a condition or a stuff
literal(s, ch) ==
    IF IsQuote(ch) THEN string(s, ch, TRUE) ELSE slash(peek(s))

\* a faulty AddParen: the depth is not counted
AddParen_none(s, d) == s

\* paren += 1, paren -= 1
AddParen(s, d) == [s EXCEPT !.paren = @ + d]

\* condition(): } else if (c === '*' && peek() === '/') {
condition_star(s) ==
    Once(LAMBDA v :
        IF v.preview = "/" THEN error(v, "unclosed condition.") ELSE v, s)

\* condition(): an iteration, after c = get(true)
condition_body(s, ch) ==
    Once(LAMBDA v :
        IF IsOpener(ch)
        THEN SetLeft(AddParen(v, 1), ch)
        ELSE IF IsCloser(ch)
        THEN IF v.paren - 1 = 0 THEN Return(AddParen(v, -1))
             ELSE SetLeft(AddParen(v, -1), ch)
        ELSE IF ch = null
        THEN error(v, "Unterminated condition.")
        ELSE IF IsQuote(ch) \/ ch = "/"
        THEN SetLeft(literal(v, ch), ch)
        ELSE IF ch = "*"
        THEN SetLeft(condition_star(peek(v)), ch)
        ELSE SetLeft(v, ch), s)

\* the character an iteration works on
with_c(s) ==
    Once(LAMBDA v :
        condition_body(v, v.c), s)

condition_step(s) == with_c(get(s, TRUE))

RECURSIVE condition_loop(_)
condition_loop(s) ==
    IF Stopped(s) THEN Returned(s)
    ELSE Once(condition_loop, condition_step(s))

condition(s) ==
    Once(LAMBDA v :
        condition_loop([v EXCEPT !.lf = "{", !.paren = 0]), s)

\* a faulty stuff_spaces: the leading spaces are kept
stuff_spaces_kept(s) == s

\* stuff(): while (peek() === ' ') { get(false); }, after peek()
RECURSIVE stuff_spaces(_)
stuff_spaces(s) ==
    IF s.preview = " " THEN Once(stuff_spaces, peek(get(s, FALSE))) ELSE s

\* a faulty stuff_end: the depth is not looked at
stuff_end_any(s) == Return(s)

\* stuff(): the star slash that ends the stuff, after get(false)
stuff_end(s) ==
    Once(LAMBDA v :
        IF v.paren > 0 THEN error(v, "Unbalanced stuff") ELSE Return(v), s)

\* a faulty stuff_star: a star that no slash follows is dropped
stuff_star_silent(s) ==
    IF s.preview = "/" THEN stuff_end(get(s, FALSE)) ELSE s

\* stuff(): a star was read by get(false), and peek() looked after it
stuff_star(s) ==
    Once(LAMBDA v :
        IF v.preview = "/" THEN stuff_end(get(v, FALSE)) ELSE emit(v, <<"*">>), s)

\* stuff(): a closing bracket, after paren -= 1
stuff_closer(s, ch) ==
    Once(LAMBDA v :
        IF v.paren < 0 THEN error(v, "Unbalanced stuff") ELSE SetLeft(v, ch), s)

\* stuff(): an iteration, after the loop over stars and c = get(true)
stuff_body(s, ch) ==
    Once(LAMBDA v :
        IF ch = null
        THEN error(v, "Unterminated stuff.")
        ELSE IF IsQuote(ch) \/ ch = "/"
        THEN SetLeft(literal(v, ch), ch)
        ELSE IF IsOpener(ch)
        THEN SetLeft(AddParen(v, 1), ch)
        ELSE IF IsCloser(ch)
        THEN stuff_closer(AddParen(v, -1), ch)
        ELSE SetLeft(v, ch), s)

stuff_with_c(s) ==
    Once(LAMBDA v :
        stuff_body(v, v.c), s)

\* stuff(): one round of the loop over stars, which opens every iteration
\* of the outer loop, or else the rest of that iteration; after peek()
stuff_round(s) ==
    Once(LAMBDA v :
        IF v.preview = "*" THEN stuff_star(peek(get(v, FALSE)))
        ELSE stuff_with_c(get(v, TRUE)), s)

stuff_step(s) == stuff_round(peek(s))

RECURSIVE stuff_loop(_)
stuff_loop(s) ==
    IF Stopped(s) THEN Returned(s) ELSE Once(stuff_loop, stuff_step(s))

stuff(s) ==
    Once(LAMBDA v :
        stuff_loop(stuff_spaces(peek([v EXCEPT !.lf = "{", !.paren = 0]))), s)

-----------------------------------------------------------------------------
(* The expander.                                                           *)

\* methods[tag_nr]; <<>> stands for undefined (a method is never empty)
MethodOf(tag_nr) == methods[tag_nr + 1]

\* what expand() emits before and after stuff()
StuffOpen(tag_nr) ==
    IF MethodOf(tag_nr) # <<>> THEN MethodOf(tag_nr) \o <<"(">> ELSE <<>>
StuffClose(tag_nr) ==
    IF MethodOf(tag_nr) # <<>> THEN CloseCall ELSE <<"}">>

\* emit, unless an exception is on its way
then_emit(s, str) ==
    Once(LAMBDA v :
        IF Failed(v) THEN v ELSE emit(v, str), s)

\* then stuff(), unless an exception is on its way
then_stuff(s) ==
    Once(LAMBDA v :
        IF Failed(v) THEN v ELSE stuff(v), s)

\* a faulty guard: no space after the condition
guard_tight(s) ==
    IF s.preview = "(" THEN condition(emit(s, IfSp)) ELSE s

\* expand(): if (c === '(') { emit("if "); condition(); emit(' '); }
guard(s) ==
    Once(LAMBDA v :
        IF v.preview = "("
        THEN then_emit(condition(emit(v, IfSp)), <<" ">>)
        ELSE v, s)

expand(s, tag_nr) ==
    then_emit(
        then_stuff(
            then_emit(then_emit(guard(peek(s)), <<"{">>), StuffOpen(tag_nr))),
        StuffClose(tag_nr))

-----------------------------------------------------------------------------
(* The tag declarations.                                                   *)

AllAlphanum(s) == s # <<>> /\ \A i \in 1..Len(s) : is_alphanum(s[i])

\* the two groups of tagx, around the colon at i
split_at(value, i) ==
    [ok |-> TRUE, tag |-> SubSeq(value, 1, i - 1),
     method |-> SubSeq(value, i + 1, Len(value))]

\* a faulty tagx_exec: every value passes for a tag
tagx_exec_any(value) == [ok |-> TRUE, tag |-> value, method |-> <<>>]

\* tagx.exec(value): result[1] is the tag, result[2] the method (<<>> when
\* the optional group did not take part); ok is FALSE for a null result
tagx_exec(value) ==
    IF AllAlphanum(value)
    THEN [ok |-> TRUE, tag |-> value, method |-> <<>>]
    ELSE IF \E i \in 1..Len(value) :
              /\ value[i] = ":"
              /\ AllAlphanum(SubSeq(value, 1, i - 1))
              /\ AllAlphanum(SubSeq(value, i + 1, Len(value)))
    THEN split_at(value, CHOOSE k \in 1..Len(value) : value[k] = ":")
    ELSE [ok |-> FALSE, tag |-> <<>>, method |-> <<>>]

\* tags.map(...): entry i onwards; threw tells that error() threw, on the
\* entry bad
RECURSIVE tags_map(_, _, _)
\* the callback of tags.map on entry i, r being tagx.exec(value)
tags_entry(i, tgs, mths, r) ==
    IF ~r.ok
    THEN [tags |-> tgs, methods |-> mths, threw |-> TRUE, bad |-> tgs[i]]
    ELSE Once(LAMBDA g : tags_map(i + 1, g, Append(mths, r.method)),
              IF r.method # <<>> THEN [tgs EXCEPT ![i] = r.tag] ELSE tgs)

tags_map(i, tgs, mths) ==
    IF i > Len(tgs)
    THEN [tags |-> tgs, methods |-> mths, threw |-> FALSE, bad |-> <<>>]
    ELSE Once(LAMBDA r : tags_entry(i, tgs, mths, r), tagx_exec(tgs[i]))

\* a faulty indexOf: the last place of v, not the first
indexOf_last(arr, v) ==
    IF \E i \in 1..Len(arr) : arr[i] = v
    THEN (CHOOSE i \in 1..Len(arr) :
              arr[i] = v /\ \A j \in (i + 1)..Len(arr) : arr[j] # v) - 1
    ELSE -1

\* tags.indexOf(tag), zero-based, -1 when absent
indexOf(arr, v) ==
    IF \E i \in 1..Len(arr) : arr[i] = v
    THEN (CHOOSE i \in 1..Len(arr) :
              arr[i] = v /\ \A j \in 1..(i - 1) : arr[j] # v) - 1
    ELSE -1

\* a faulty split: only a line feed ends a line
RECURSIVE split_lf(_, _)
split_lf(t, cur) ==
    IF t = <<>> THEN <<cur>>
    ELSE IF Head(t) = "\n" THEN <<cur>> \o split_lf(Tail(t), <<>>)
    ELSE split_lf(Tail(t), Append(cur, Head(t)))

\* source.split(/\n|\r\n?/); cur is the line being collected
RECURSIVE split(_, _)
split(t, cur) ==
    IF t = <<>> THEN <<cur>>
    ELSE IF Head(t) = "\n" THEN <<cur>> \o split(Tail(t), <<>>)
    ELSE IF Head(t) = "\r"
    THEN <<cur>> \o split(IF Len(t) >= 2 /\ t[2] = "\n" THEN Tail(Tail(t))
                          ELSE Tail(t), <<>>)
    ELSE split(Tail(t), Append(cur, Head(t)))

-----------------------------------------------------------------------------
(* process(): the pieces of one iteration.                                 *)

\* a faulty line_comment: the comment runs to the end of the file
RECURSIVE line_comment_to_end(_)
line_comment_to_end(s) ==
    IF s.c = null THEN s ELSE Once(line_comment_to_end, get(s, TRUE))

\* the loop that echoes a slash slash comment, after c = get(true)
RECURSIVE line_comment(_)
line_comment(s) ==
    IF s.c = "\n" \/ s.c = "\r" \/ s.c = null THEN s
    ELSE Once(line_comment, get(s, TRUE))

\* the loop that collects the tag, after c = get(false); the record's c is
\* the character that ended it
RECURSIVE read_tag(_, _)
read_tag(s, tag) ==
    IF ~is_alphanum(s.c) THEN [ok |-> TRUE, s |-> unget(s, s.c), tag |-> tag]
    ELSE Once(LAMBDA n : read_tag(n, Append(tag, s.c)), get(s, FALSE))

\* a faulty comment_body: a slash star inside the comment goes unnoticed
comment_body_lax(s, was) ==
    IF was = "*" /\ s.c = "/" THEN Return(s) ELSE s

\* the loop that echoes a comment whose tag did not match: an iteration
\* on the character was, after c = get(true)
comment_body(s, was) ==
    IF was = "/" /\ s.c = "*" THEN error(s, "nested comment.")
    ELSE IF was = "*" /\ s.c = "/" THEN Return(s)
    ELSE s

comment_step(s) ==
    IF s.c = null THEN error(s, "unterminated comment.")
    ELSE comment_body(get(s, TRUE), s.c)

RECURSIVE comment_loop(_)
comment_loop(s) ==
    IF Stopped(s) THEN Returned(s) ELSE Once(comment_loop, comment_step(s))

\* after peek(): on a star, get(false), the tag loop and unget(c)
tag_scan(s) ==
    IF s.preview # "*" THEN [ok |-> FALSE, s |-> s, tag |-> <<>>]
    ELSE read_tag(get(get(s, FALSE), FALSE), <<>>)

TagScan == tag_scan(peek(St))

\* i = (!tag) ? -1 : tags.indexOf(tag)
TagIndex(tag) == IF tag = <<>> THEN -1 ELSE indexOf(tags.val, tag)

Throw(s) ==
    [status |-> "throw", text |-> <<>>, lineno |-> s.errline, message |-> s.err]

\* The closure's variables after the calls of one iteration: on an exception
\* the call ends, otherwise the loop goes on with c and left as given.
Commit(s, nc, nl) ==
    \E v \in {s} :
        /\ line' = v.line
        /\ line_nr' = v.line_nr
        /\ preview' = v.preview
        /\ outputs' = v.outputs
        /\ IF Failed(v)
           THEN pc' = "error" /\ result' = Throw(v) /\ UNCHANGED <<c, left>>
           ELSE pc' = "process" /\ c' = nc /\ left' = nl /\ UNCHANGED result
        /\ UNCHANGED <<source, tags, comments, lines, methods, calls, declared>>

\* the iteration ends with the c that get(false) read
CommitC(s, nl) == \E v \in {s} : Commit(v, v.c, nl)

\* c = get(false) at the end of an iteration, unless an exception is on
\* its way
Resume(s, nl) ==
    \E v \in {s} : CommitC(IF Failed(v) THEN v ELSE get(v, FALSE), nl)

\* the branch of a slash star whose tag is declared
Pattern(ts) ==
    \E t \in {ts} :
        /\ t.ok
        /\ TagIndex(t.tag) >= 0
        /\ Resume(expand(t.s, TagIndex(t.tag)), left)

\* a faulty Comment: the tag that did not match is not echoed
Comment_untagged(ts) ==
    \E t \in {ts} :
        /\ t.ok
        /\ TagIndex(t.tag) < 0
        /\ Resume(comment_loop(emit(t.s, SlashStar)), left)

\* the branch of a slash star whose tag is not declared
Comment(ts) ==
    \E t \in {ts} :
        /\ t.ok
        /\ TagIndex(t.tag) < 0
        /\ Resume(comment_loop(emit(emit(t.s, SlashStar), t.tag)), left)

\* the branch of a slash slash, after peek()
LineComment(s) ==
    \E v \in {s} :
        /\ v.preview = "/"
        /\ Resume(line_comment(get(emit(v, <<"/">>), TRUE)), left)

\* the branch of a single slash, after peek()
Slash(s) ==
    \E v \in {s} :
        /\ v.preview # "/"
        /\ v.preview # "*"
        /\ Resume(IF pre_regexp(left) THEN regexp(emit(v, <<"/">>), FALSE)
                  ELSE emit(v, <<"/">>), "/")

-----------------------------------------------------------------------------
(* The call, step by step.                                                 *)

\* the comments argument is made into comments at the top of the output
EmitComments ==
    /\ pc = "comments"
    /\ outputs' =
           IF comments.kind = "string"
           THEN <<HeadPrefix \o comments.val \o <<"\n">> >>
           ELSE IF comments.kind = "array"
           THEN [i \in 1..Len(comments.val) |->
                     HeadPrefix \o comments.val[i] \o <<"\n">>]
           ELSE outputs
    /\ pc' = "tags"
    /\ UNCHANGED <<source, tags, comments, lines, line, line_nr, methods,
                   preview, c, left, result, calls, declared>>

\* tags.map(...) went through, or threw on the entry r.bad
Parsed(r) ==
    /\ tags' = [tags EXCEPT !.val = r.tags]
    /\ IF r.threw
       THEN /\ pc' = "error"
            /\ result' = [status |-> "throw", text |-> r.bad,
                          lineno |-> line_nr + 1, message |-> "value"]
            /\ UNCHANGED methods
       ELSE /\ pc' = "source"
            /\ methods' = r.methods
            /\ UNCHANGED result

\* the tags are inspected and the methods parsed out
ParseTags ==
    /\ pc = "tags"
    /\ IF tags.kind = "array"
       THEN Parsed(tags_map(1, tags.val, <<>>))
       ELSE /\ pc' = "error"
            /\ result' = [status |-> "throw", text |-> <<>>,
                          lineno |-> line_nr + 1, message |-> "no tags"]
            /\ UNCHANGED <<tags, methods>>
    /\ UNCHANGED <<source, comments, lines, line, line_nr, outputs, preview,
                   c, left, calls, declared>>

\* the source is bust into lines
SplitSource ==
    /\ pc = "source"
    /\ lines' = IF source.kind = "string" THEN split(source.val, <<>>)
                ELSE source.val
    /\ pc' = "start"
    /\ UNCHANGED <<source, tags, comments, line, line_nr, methods, outputs,
                   preview, c, left, result, calls, declared>>

\* process(): var c = get(false); var left = 0
ProcessStart ==
    /\ pc = "start"
    /\ CommitC(get(St, FALSE), Zero)

\* a faulty ProcessEnd: at the end of the input the loop does not break
ProcessEnd_spin ==
    /\ pc = "process"
    /\ c = null
    /\ UNCHANGED vars

\* c === null: the loop breaks and jsdev returns outputs.join('')
ProcessEnd ==
    /\ pc = "process"
    /\ c = null
    /\ pc' = "done"
    /\ result' = [status |-> "return", text |-> Join(outputs), lineno |-> 0,
                  message |-> ""]
    /\ UNCHANGED <<source, tags, comments, lines, line, line_nr, methods,
                   outputs, preview, c, left, calls, declared>>

\* a quote: the string literal is echoed, and c = 0
ProcessString ==
    /\ pc = "process"
    /\ IsQuote(c)
    /\ Commit(string(emitc(St, c), c, FALSE), Zero, left)

\* slash slash: the comment is echoed to the end of the line
ProcessLineComment ==
    /\ pc = "process"
    /\ c = "/"
    /\ LineComment(peek(St))

\* slash star and a declared tag: the pattern is expanded
ProcessPattern ==
    /\ pc = "process"
    /\ c = "/"
    /\ Pattern(TagScan)

\* slash star and no declared tag: the comment is echoed
ProcessComment ==
    /\ pc = "process"
    /\ c = "/"
    /\ Comment(TagScan)

\* a single slash: division, or a regexp literal after one of pre_regexp
ProcessSlash ==
    /\ pc = "process"
    /\ c = "/"
    /\ Slash(peek(St))

\* nothing special: the character is echoed
ProcessOther ==
    /\ pc = "process"
    /\ c # null
    /\ ~IsQuote(c)
    /\ c # "/"
    /\ Resume(emitc(St, c), IF GtSpace(c) THEN c ELSE left)

-----------------------------------------------------------------------------
(* The inputs of a call.                                                   *)

\* the longest body of a block comment that is tried in full
MaxBody == 3
\* the longest top-level text that is tried in full
MaxTop == 5
\* the longest text after the parenthesis that opens a condition
MaxCond == 4
\* the longest text of a block comment inside a literal or a line comment
MaxInner == 2
\* the longest text of characters and line ends
MaxLine == 3
\* the longest text inside a string literal of a stuff
MaxString == 2
\* the longest text after the opening of a literal that is never closed
MaxBroken == 2
\* the longest text after an escaped character of a string literal
MaxEscape == 2
\* the most pieces of the body of a regexp literal
MaxPieces == 2
\* the longest text after the literal of a condition
MaxRest == 2
\* the longest stuff of stars and plain characters
MaxStars == 3

\* all texts over the characters A, no longer than n
Texts(A, n) == UNION {[1..k -> A] : k \in 0..n}

\* "debug", "log:console.log" in short: tag d, and tag l bound to method m
DefaultTags == ArrayArg(<< <<"d">>, <<"l", ":", "m">> >>)

BodyChars == {" ", "x", "(", ")", "\"", "*", "/", "["}
TagHeads == {<<"d">>, <<"l">>, <<"u">>, <<>>}
TopChars == {"/", "*", "\"", "=", "d"}
CondChars == {"(", ")", "]", "x", " ", "\""}
InnerChars == {"d", " "}
LineChars == {"x", "\n", "\r"}
StringChars == {"*", "/", "x"}

\* one block comment: slash star, a tag or none, a body, star slash
CommentTexts ==
    {SlashStar \o h \o b \o <<"*", "/">> :
        h \in TagHeads, b \in Texts(BodyChars, MaxBody)}

\* one block comment of tag l that opens a condition
CondTexts ==
    {SlashStar \o <<"l", "(">> \o b \o <<"*", "/">> :
        b \in Texts(CondChars, MaxCond)}

TopTexts == Texts(TopChars, MaxTop)

\* the ways to open and close a string, a regexp and a line comment
Literals ==
    {[open |-> <<"\"">>, close |-> <<"\"">>],
     [open |-> <<"'">>, close |-> <<"'">>],
     [open |-> <<BackQuote>>, close |-> <<BackQuote>>],
     [open |-> <<"\"", "\\", "\"">>, close |-> <<"\"">>],
     [open |-> <<"=", "/", "[">>, close |-> <<"]", "/">>],
     [open |-> <<"=", "/", "\\">>, close |-> <<>>],
     [open |-> <<"/", "/">>, close |-> <<"\n">>]}

\* a block comment inside a literal or a line comment, then nothing or a
\* pattern
LiteralTexts ==
    {l.open \o SlashStar \o b \o <<"*", "/">> \o l.close \o post :
        l \in Literals, b \in Texts(InnerChars, MaxInner),
        post \in {<<>>, <<"/", "*", "d", "*", "/">>}}

LineTexts == Texts(LineChars, MaxLine)

\* one block comment of tag d whose stuff has a string literal
StringTexts ==
    {SlashStar \o <<"d">> \o pre \o <<q>> \o a \o <<q>> \o post
     \o <<"*", "/">> :
        pre \in {<<>>, <<" ">>}, q \in {"'", "\"", BackQuote},
        a \in Texts(StringChars, MaxString), post \in {<<>>, <<";">>}}

\* the ways to open a string, a regexp and a set of a regexp, at the top
\* level and in a stuff
Openings ==
    {<<"\"">>, <<"=", "/">>, <<"=", "/", "[">>, <<"/", "*", "d", "\"">>,
     <<"/", "*", "d", "/">>, <<"/", "*", "d", "/", "[">>}
BrokenChars == {"x", "\n", "\\"}
\* a literal that is open at the end of the input, on the first line or the
\* second, over one line or more
BrokenTexts ==
    {pre \o o \o b :
        pre \in {<<>>, <<"x", "\n">>}, o \in Openings,
        b \in Texts(BrokenChars, MaxBroken)}
\* a string literal that begins with an escaped character, at the top
\* level and as the stuff of tag d
EscapeTexts ==
    {pre \o <<"\"", "\\", e>> \o r \o post :
        pre \in {<<>>, <<"/", "*", "d">>}, e \in {"\"", "*", "x", "\\"},
        r \in Texts({"\"", "/", "*"}, MaxEscape),
        post \in {<<>>, <<"*", "/">>}}
\* the pieces of the body of a regexp: a character, a set that holds a
\* slash, a set that holds an escaped bracket, an escaped slash, and a set
\* that is left open
Pieces ==
    {<<"x">>, <<"[", "/", "]">>, <<"[", "\\", "]", "]">>, <<"\\", "/">>,
     <<"[", "x">>}
RECURSIVE Bodies(_)
Bodies(n) ==
    IF n = 0 THEN {<<>>}
    ELSE Bodies(n - 1) \cup {b \o p : b \in Bodies(n - 1), p \in Pieces}
\* a regexp literal, at the top level and as the stuff of tag d, and what
\* follows its closing slash
RegexpTexts ==
    {pre \o <<"/">> \o b \o <<"/">> \o after \o post :
        pre \in {<<"=">>, <<"/", "*", "d">>}, b \in Bodies(MaxPieces),
        after \in {<<>>, <<"/">>, <<"*">>, <<" ">>},
        post \in {<<>>, <<"*", "/">>}}
\* a condition of tag l that begins with a literal holding a bracket, with
\* a division, or with a literal that is left open, and then closes or not
CondLiterals ==
    {<<"/", ")", "/">>, <<"\"", "(", "\"">>, <<"/", "[", "(", "]", "/">>,
     <<"x", "/", ")">>, <<"\"", "(">>, <<"/", "(">>}
CondLiteralTexts ==
    {SlashStar \o <<"l", "(">> \o l \o r \o post :
        l \in CondLiterals, r \in Texts({")", "("}, MaxRest),
        post \in {<<>>, <<"*", "/">>}}
\* spaces, a line end or a tab after the tag d or the condition of tag l,
\* then a stuff of stars and plain characters
StarTexts ==
    {SlashStar \o h \o lead \o b \o <<"*", "/">> :
        h \in {<<"d">>, <<"l", "(", "x", ")">>},
        lead \in {<<>>, <<" ">>, <<" ", " ">>, <<"\n">>, <<"\t">>,
                  <<" ", "\n", " ">>},
        b \in Texts({"x", "*"}, MaxStars)}
SourceTexts ==
    StarTexts \cup CondLiteralTexts \cup RegexpTexts \cup EscapeTexts \cup CommentTexts \cup CondTexts \cup TopTexts \cup LiteralTexts
    \cup LineTexts \cup StringTexts \cup BrokenTexts

\* the comments argument: absent, a string, an array, something else
HeaderArgs ==
    {NoArg, StringArg(<<"A">>), StringArg(<<>>),
     ArrayArg(<< <<"A">>, <<"B">> >>), ArrayArg(<<>>),
     [kind |-> "number", val |-> <<>>]}

\* the tags argument: well formed, empty, malformed, absent
TagArgs ==
    {DefaultTags, ArrayArg(<< <<"l">>, <<"d", ":", "m">> >>),
     ArrayArg(<< <<"d", ":", "m">>, <<"d">> >>),
     ArrayArg(<< <<"d">>, <<"d", ":", "m">> >>), ArrayArg(<<>>),
     ArrayArg(<< <<"d">>, <<"l", ":">> >>),
     ArrayArg(<< <<"d">>, <<"l", ":", " ", "m">> >>),
     ArrayArg(<< <<>>, <<"d">> >>), NoArg}

ConfigTexts ==
    {<<"/", "*", "d", " ", "x", "*", "/">>,
     <<"/", "*", "l", " ", "x", "*", "/">>, <<"x">>, <<>>}

Inputs ==
    {[source |-> StringArg(t), tags |-> DefaultTags, comments |-> NoArg] :
        t \in SourceTexts}
    \cup {[source |-> StringArg(t), tags |-> g, comments |-> h] :
            t \in ConfigTexts, g \in TagArgs, h \in HeaderArgs}

-----------------------------------------------------------------------------
(* The specification of one call.                                          *)

Init ==
    /\ \E inp \in Inputs :
           /\ source = inp.source
           /\ tags = inp.tags
           /\ comments = inp.comments
    /\ lines = <<>>
    /\ line = NoLine
    /\ line_nr = -1
    /\ methods = <<>>
    /\ outputs = <<>>
    /\ preview = null
    /\ c = null
    /\ left = Zero
    /\ pc = "comments"
    /\ result = NoResult
    /\ calls = <<>>
    /\ declared = tags

Next ==
    \/ EmitComments
    \/ ParseTags
    \/ SplitSource
    \/ ProcessStart
    \/ ProcessEnd
    \/ ProcessString
    \/ ProcessLineComment
    \/ ProcessPattern
    \/ ProcessComment
    \/ ProcessSlash
    \/ ProcessOther

Spec == Init /\ [][Next]_vars

\* a call, once made, runs on until it returns or throws
SpecFair == Spec /\ WF_vars(Next)

\* a second call, on the text the first call returned, with the same tag
\* declarations and no comments
Reconvert ==
    /\ pc = "done"
    /\ calls = <<>>
    /\ comments.kind = "undefined"
    /\ calls' = <<result>>
    /\ source' = StringArg(result.text)
    /\ tags' = declared
    /\ lines' = <<>>
    /\ line' = NoLine
    /\ line_nr' = -1
    /\ methods' = <<>>
    /\ outputs' = <<>>
    /\ preview' = null
    /\ c' = null
    /\ left' = Zero
    /\ pc' = "comments"
    /\ result' = NoResult
    /\ UNCHANGED <<comments, declared>>

NextTwice == Next \/ Reconvert

SpecTwice == Init /\ [][NextTwice]_vars

\* a second call with the arguments of the first: the same source, the
\* same comments, and the tags array the caller holds, as the first call
\* left it
Recall ==
    /\ pc \in {"done", "error"}
    /\ calls = <<>>
    /\ calls' = <<result>>
    /\ lines' = <<>>
    /\ line' = NoLine
    /\ line_nr' = -1
    /\ methods' = <<>>
    /\ outputs' = <<>>
    /\ preview' = null
    /\ c' = null
    /\ left' = Zero
    /\ pc' = "comments"
    /\ result' = NoResult
    /\ UNCHANGED <<source, tags, comments, declared>>

NextAgain == Next \/ Recall

SpecAgain == Init /\ [][NextAgain]_vars

\* the place i of the text t ends a line break: a line feed, or a carriage
\* return that no line feed follows
BreakEnd(t, i) ==
    \/ t[i] = "\n"
    \/ t[i] = "\r" /\ ~(i < Len(t) /\ t[i + 1] = "\n")

\* the number of line breaks of t that end before the place p
BreaksBefore(t, p) == Cardinality({i \in 1..(p - 1) : BreakEnd(t, i)})

\* the characters of line k of t, from the place p on
RECURSIVE KeepLine(_, _, _)
KeepLine(t, k, p) ==
    IF p > Len(t) THEN <<>>
    ELSE (IF t[p] \notin {"\n", "\r"} /\ BreaksBefore(t, p) = k - 1
          THEN <<t[p]>> ELSE <<>>) \o KeepLine(t, k, p + 1)

\* the lines of the text t, as a caller who splits it at its line breaks
\* gets them
LinesOf(t) ==
    [k \in 1..(BreaksBefore(t, Len(t) + 1) + 1) |-> KeepLine(t, k, 1)]

\* a second call, by a caller who has split the source of the first into
\* its lines: the source is the array of the lines, and the tags and the
\* comments are those of the first call
Resplit ==
    /\ pc \in {"done", "error"}
    /\ calls = <<>>
    /\ source.kind = "string"
    /\ calls' = <<result>>
    /\ source' = ArrayArg(LinesOf(source.val))
    /\ tags' = declared
    /\ lines' = <<>>
    /\ line' = NoLine
    /\ line_nr' = -1
    /\ methods' = <<>>
    /\ outputs' = <<>>
    /\ preview' = null
    /\ c' = null
    /\ left' = Zero
    /\ pc' = "comments"
    /\ result' = NoResult
    /\ UNCHANGED <<comments, declared>>

NextLines == Next \/ Resplit

SpecLines == Init /\ [][NextLines]_vars


-----------------------------------------------------------------------------
(* What is left to read and what was written, as plain text.               *)

\* the lines from index i (zero-based) on, a line feed after every one
RECURSIVE RestLines(_)
RestLines(i) ==
    IF i >= Len(lines) THEN <<>>
    ELSE lines[i + 1] \o <<"\n">> \o RestLines(i + 1)

\* the characters get() has yet to deliver
Unread(s) ==
    (IF s.preview # null THEN <<s.preview>> ELSE <<>>)
    \o (IF s.line.str THEN s.line.s \o <<"\n">> ELSE <<>>)
    \o RestLines(s.line_nr + 1)

\* the input process() has yet to deal with: its c and what is unread
Pending == (IF c = null \/ c = Zero THEN <<>> ELSE <<c>>) \o Unread(St)

\* the output so far
Out == Join(outputs)

\* of a step: the input it dealt with and the output it wrote
Consumed == SubSeq(Pending, 1, Len(Pending) - Len(Pending'))
Emitted == SubSeq(Out', Len(Out) + 1, Len(Out'))

\* a step of process() that did not throw
Went == pc = "process" /\ pc' = "process"

(* The tag declarations as the caller wrote them. *)

TagChars ==
    {"0", "2", "A", "B", "_", "$", ".", "a", "b", "d", "l", "m", "u", "x", "y"}

ColonAt(d) ==
    IF \E i \in 1..Len(d) : d[i] = ":"
    THEN CHOOSE i \in 1..Len(d) : d[i] = ":" /\ \A j \in 1..(i - 1) : d[j] # ":"
    ELSE 0
DeclTag(d) == IF ColonAt(d) = 0 THEN d ELSE SubSeq(d, 1, ColonAt(d) - 1)
DeclMethod(d) ==
    IF ColonAt(d) = 0 THEN <<>> ELSE SubSeq(d, ColonAt(d) + 1, Len(d))
Declares(T) ==
    T # <<>> /\ \E i \in 1..Len(declared.val) : DeclTag(declared.val[i]) = T
\* the method of the first declaration of T, <<>> when it has none
MethodFor(T) ==
    DeclMethod(declared.val[
        CHOOSE i \in 1..Len(declared.val) :
            /\ DeclTag(declared.val[i]) = T
            /\ \A j \in 1..(i - 1) : DeclTag(declared.val[j]) # T])

(* A block comment at the head of the pending input. *)

\* the length of the run of tag characters of P from index i on
RECURSIVE RunLen(_, _)
RunLen(P, i) ==
    IF i <= Len(P) /\ P[i] \in TagChars THEN 1 + RunLen(P, i + 1) ELSE 0

AtBlockComment ==
    pc = "process" /\ c = "/" /\ Len(Pending) >= 2 /\ Pending[2] = "*"
\* the text right after the slash star that may be a tag
CandTag == SubSeq(Pending, 3, 2 + RunLen(Pending, 3))
\* the index in Pending of the character right after the candidate tag
AfterTag == 3 + Len(CandTag)
AtPattern == AtBlockComment /\ Declares(CandTag)
ParenFollows == AfterTag <= Len(Pending) /\ Pending[AfterTag] = "("

\* t without its leading space characters
RECURSIVE DropSpaces(_)
DropSpaces(t) ==
    IF t # <<>> /\ Head(t) = " " THEN DropSpaces(Tail(t)) ELSE t

\* the block {<stuff>} or {<method>(<stuff>);} for method m and stuff B
Block(m, B) ==
    IF m = <<>> THEN <<"{">> \o B \o <<"}">>
    ELSE <<"{">> \o m \o <<"(">> \o B \o <<")", ";", "}">>

\* X ends with star slash and holds no other star slash
EndsAtFirstClose(X) ==
    /\ Len(X) >= 2
    /\ X[Len(X) - 1] = "*"
    /\ X[Len(X)] = "/"
    /\ \A i \in 1..(Len(X) - 2) : ~(X[i] = "*" /\ X[i + 1] = "/")

-----------------------------------------------------------------------------
-----------------------------------------------------------------------------
\* openers minus closers in t
RECURSIVE Depth(_)
Depth(t) ==
    IF t = <<>> THEN 0
    ELSE Depth(SubSeq(t, 1, Len(t) - 1))
         + (IF t[Len(t)] \in {"(", "{", "["} THEN 1
            ELSE IF t[Len(t)] \in {")", "}", "]"} THEN -1 ELSE 0)

\* t holds no quote and no slash, so that no literal can start in it
Plain(t) == \A i \in 1..Len(t) : t[i] \notin {"'", "\"", BackQuote, "/"}

\* A starts with an opener and ends at the closer that brings the depth,
\* counted over parentheses, braces and brackets alike, back to zero
ThroughMatchingCloser(A) ==
    /\ A # <<>>
    /\ A[1] = "("
    /\ A[Len(A)] \in {")", "}", "]"}
    /\ Depth(A) = 0
    /\ \A i \in 1..(Len(A) - 1) : Depth(SubSeq(A, 1, i)) >= 1

\* X is slash star, T, the condition X[k..j], then the stuff
GuardedShape(X, k, j, m) ==
    /\ X[j] \in {")", "}", "]"}
    /\ Plain(SubSeq(X, k, j)) => ThroughMatchingCloser(SubSeq(X, k, j))
    /\ Emitted = <<"i", "f", " ">> \o SubSeq(X, k, j) \o <<" ">>
                 \o Block(m, DropSpaces(SubSeq(X, j + 1, Len(X) - 2)))

\* e is one of the four shapes: a block or a call, guarded or not
IsBlock(e, m) ==
    /\ Len(e) >= 2 + (IF m = <<>> THEN 0 ELSE Len(m) + 3)
    /\ e = Block(m, SubSeq(e, 2 + (IF m = <<>> THEN 0 ELSE Len(m) + 1),
                           Len(e) - (IF m = <<>> THEN 1 ELSE 3)))
FourShapes(e, m) ==
    \/ IsBlock(e, m)
    \/ \E j \in 5..(Len(e) - 2) :
        /\ SubSeq(e, 1, 4) = <<"i", "f", " ", "(">>
        /\ e[j] = " "
        /\ IsBlock(SubSeq(e, j + 1, Len(e)), m)

(* C2  Guarded expansion.  A step of process() that starts at a slash star *)
(* followed by a declared tag and then by an opening parenthesis, and that *)
(* does not throw, writes "if ", the condition copied from that            *)
(* parenthesis through a closer (the matching one, when the condition      *)
(* holds no literal), one space, and the unguarded expansion of the rest.  *)
(* Every step that expands a comment writes a block or a call of the       *)
(* tag's method, alone or after such an "if (...) ".                       *)
C2_GuardedExpansion ==
    [][(AtPattern /\ Went) =>
        LET X == Consumed
            m == MethodFor(CandTag) IN
        /\ FourShapes(Emitted, m)
        /\ ParenFollows =>
            /\ Pending = X \o Pending'
            /\ EndsAtFirstClose(X)
            /\ \E j \in AfterTag..(Len(X) - 2) :
                   GuardedShape(X, AfterTag, j, m)]_vars

\* /*l(x)*/ came out as if (x) {m();}
C2_Witness ==
    /\ pc = "done"
    /\ source.val = <<"/", "*", "l", "(", "x", ")", "*", "/">>
    /\ result.text = <<"i", "f", " ", "(", "x", ")", " ",
                        "{", "m", "(", ")", ";", "}", "\n">>

-----------------------------------------------------------------------------
\* the index of the slash of the first star slash of P whose star is not
\* the star of the opening slash star, 0 if there is none
FirstClose(P) ==
    IF \E e \in 4..Len(P) : P[e - 1] = "*" /\ P[e] = "/"
    THEN CHOOSE e \in 4..Len(P) :
            /\ P[e - 1] = "*" /\ P[e] = "/"
            /\ \A f \in 4..(e - 1) : ~(P[f - 1] = "*" /\ P[f] = "/")
    ELSE 0

\* a slash star inside the comment P[1..e]
InnerOpen(P, e) == \E i \in 3..(e - 2) : P[i] = "/" /\ P[i + 1] = "*"

AtComment == AtBlockComment /\ ~Declares(CandTag)

(* C3  Unknown-tag preservation.  At a slash star that no declared tag     *)
(* follows, when the comment is terminated and holds no inner slash star,  *)
(* the step of process() does not throw, deals with the input from the     *)
(* slash star through the first star slash, and writes exactly that text.  *)
C3_UnknownTagPreserved ==
    [][(AtComment
        /\ FirstClose(Pending) # 0
        /\ ~InnerOpen(Pending, FirstClose(Pending))) =>
            /\ pc' = "process"
            /\ Pending = Consumed \o Pending'
            /\ Consumed = SubSeq(Pending, 1, FirstClose(Pending))
            /\ Emitted = Consumed]_vars

\* /*u x*/ with u not declared came out as it went in
C3_Witness ==
    /\ pc = "done"
    /\ source.val = <<"/", "*", "u", " ", "x", "*", "/">>
    /\ result.text = <<"/", "*", "u", " ", "x", "*", "/", "\n">>

-----------------------------------------------------------------------------
IsPrefix(a, b) == Len(a) <= Len(b) /\ SubSeq(b, 1, Len(a)) = a

Quotes == {"'", "\"", BackQuote}

\* the characters that make a slash to their right open a regexp
RegexpLeft == {"(", ",", "=", ":", "[", "!", "&", "|", "?", "{", "}", ";"}

\* the index of the first q of P from i on that no backslash escapes,
\* 0 if there is none
RECURSIVE ClosingQuote(_, _, _)
ClosingQuote(P, q, i) ==
    IF i > Len(P) THEN 0
    ELSE IF P[i] = q THEN i
    ELSE IF P[i] = "\\" THEN ClosingQuote(P, q, i + 2)
    ELSE ClosingQuote(P, q, i + 1)

\* the index of the first slash of P from i on that no backslash escapes
\* and that is not in a bracketed set, 0 if there is none
RECURSIVE RegexpEnd(_, _, _)
RegexpEnd(P, i, inset) ==
    IF i > Len(P) THEN 0
    ELSE IF P[i] = "\\" THEN RegexpEnd(P, i + 2, inset)
    ELSE IF inset THEN RegexpEnd(P, i + 1, P[i] # "]")
    ELSE IF P[i] = "/" THEN i
    ELSE RegexpEnd(P, i + 1, P[i] = "[")

\* the index of the first line end of P, 0 if there is none
LineEnd(P) ==
    IF \E i \in 1..Len(P) : P[i] \in {"\n", "\r"}
    THEN CHOOSE i \in 1..Len(P) :
            /\ P[i] \in {"\n", "\r"}
            /\ \A j \in 1..(i - 1) : P[j] \notin {"\n", "\r"}
    ELSE 0

\* t holds a star slash
HoldsClose(t) == \E j \in 1..(Len(t) - 1) : t[j] = "*" /\ t[j + 1] = "/"

AtString == pc = "process" /\ c \in Quotes
AtRegexp ==
    /\ pc = "process"
    /\ c = "/"
    /\ Len(Pending) >= 2
    /\ Pending[2] \notin {"/", "*"}
    /\ left \in RegexpLeft
AtLineComment ==
    pc = "process" /\ c = "/" /\ Len(Pending) >= 2 /\ Pending[2] = "/"

\* the step dealt with Pending[1..e], wrote it as it is, and left the rest
CopiedThrough(e) ==
    /\ e > 0
    /\ Consumed = SubSeq(Pending, 1, e)
    /\ Emitted = Consumed
    /\ Pending = Consumed \o Pending'

-----------------------------------------------------------------------------
\* a declaration of the form tag or tag:method
ValidDecl(d) ==
    /\ DeclTag(d) # <<>>
    /\ \A i \in 1..Len(DeclTag(d)) : DeclTag(d)[i] \in TagChars
    /\ \A i \in 1..Len(DeclMethod(d)) : DeclMethod(d)[i] \in TagChars
    /\ ColonAt(d) # 0 => DeclMethod(d) # <<>>

\* a tag configuration that is not empty and is well formed
ValidTags ==
    /\ declared.kind = "array"
    /\ declared.val # <<>>
    /\ \A i \in 1..Len(declared.val) : ValidDecl(declared.val[i])

NoBlockComment(t) ==
    \A i \in 1..(Len(t) - 1) : ~(t[i] = "/" /\ t[i + 1] = "*")

\* t with every line ending made a single line feed
RECURSIVE Normalised(_)
Normalised(t) ==
    IF t = <<>> THEN <<>>
    ELSE IF Head(t) = "\r"
    THEN <<"\n">> \o Normalised(IF Len(t) >= 2 /\ t[2] = "\n"
                                THEN Tail(Tail(t)) ELSE Tail(t))
    ELSE <<Head(t)>> \o Normalised(Tail(t))

Finished == pc \in {"done", "error"}

(* C5  Identity on untagged input.  A call on a source text that holds no  *)
(* slash star, with a well-formed tag configuration that is not empty,     *)
(* returns the source text with its line endings made line feeds.          *)
C5_IdentityOnUntagged ==
    (Finished /\ calls = <<>> /\ ValidTags /\ NoBlockComment(source.val)) =>
        /\ pc = "done"
        /\ result.text = Normalised(source.val)

(* C6  Idempotence.  When a call has returned, a second call on the text   *)
(* it returned, with the same tag declarations, returns that same text.    *)
C6_Idempotent ==
    (Finished /\ calls # <<>>) =>
        /\ pc = "done"
        /\ result.text = calls[1].text

-----------------------------------------------------------------------------
\* from index k on, t has nothing but spaces and opening parentheses, then
\* a string literal that holds a star slash (and no backslash)
StringWithClose(t, k) ==
    \E i \in k..Len(t) : \E j \in (i + 1)..(Len(t) - 1) :
        /\ t[i] \in Quotes
        /\ \A n \in k..(i - 1) : t[n] \in {" ", "("}
        /\ t[j] = "*"
        /\ t[j + 1] = "/"
        /\ \A n \in (i + 1)..(j - 1) : t[n] \notin {t[i], "\\"}
        /\ ClosingQuote(t, t[i], j + 2) # 0

\* slash star d, a stuff that is a string literal holding a star slash and
\* then whatever, star slash
StringStuff(t) ==
    /\ Len(t) >= 5
    /\ SubSeq(t, 1, 3) = <<"/", "*", "d">>
    /\ SubSeq(t, Len(t) - 1, Len(t)) = <<"*", "/">>
    /\ StringWithClose(SubSeq(t, 1, Len(t) - 2), 4)
    /\ declared = DefaultTags

(* C7  Literal safety of the stuff, as claimed.  A call on a comment of    *)
(* tag d whose stuff has a string literal that holds a star slash returns  *)
(* the stuff, the string included, in braces.                              *)
C7_StringCopiedThrough ==
    (Finished /\ StringStuff(source.val)) =>
        /\ pc = "done"
        /\ IsPrefix(<<"{">>
                    \o DropSpaces(SubSeq(source.val, 4, Len(source.val) - 2))
                    \o <<"}">>, result.text)

(* C7  Literal safety of the stuff, as the code has it.  A call on a       *)
(* comment of tag d whose stuff has a string literal that holds a star     *)
(* slash throws "unexpected close comment in string." for the line of the  *)
(* star slash, and returns nothing.                                        *)
C7_StringWithCloseThrows ==
    (Finished /\ StringStuff(source.val)) =>
        /\ pc = "error"
        /\ result.status = "throw"
        /\ result.message = "unexpected close comment in string."
        /\ result.lineno = 1

\* /*d"*/"*/ threw
C7_Witness ==
    /\ pc = "error"
    /\ source.val = <<"/", "*", "d", "\"", "*", "/", "\"", "*", "/">>
    /\ declared = DefaultTags
    /\ result.message = "unexpected close comment in string."

-----------------------------------------------------------------------------
\* from index k on, t has nothing but spaces and opening parentheses, then
\* a regexp literal that holds a star slash (and no backslash)
RegexpWithClose(t, k) ==
    \E i \in k..Len(t) : \E j \in (i + 2)..(Len(t) - 1) :
        /\ t[i] = "/"
        /\ \A n \in k..(i - 1) : t[n] \in {" ", "("}
        /\ t[i + 1] \notin {"/", "*"}
        /\ t[j] = "*"
        /\ t[j + 1] = "/"
        /\ \A n \in (i + 1)..(j - 1) : t[n] \notin {"/", "\\", "]"}

\* from index k on, t has a string literal that holds a star slash, with
\* or without its closing quote
OpenStringWithClose(t, k) ==
    \E i \in k..Len(t) : \E j \in (i + 1)..(Len(t) - 1) :
        /\ t[i] \in Quotes
        /\ \A n \in k..(i - 1) : t[n] \in {" ", "("}
        /\ t[j] = "*"
        /\ t[j + 1] = "/"
        /\ \A n \in (i + 1)..(j - 1) : t[n] \notin {t[i], "\\"}

(* C8  Close comment inside a literal.  A step of process() that starts at *)
(* a pattern whose condition or stuff comes to a string or a regexp        *)
(* literal that holds a star slash throws.  A step that starts at a        *)
(* top-level string or regexp literal that holds a star slash and is       *)
(* closed does not throw, and copies the literal.                          *)
C8_CloseInLiteral ==
    [][/\ (AtPattern /\ OpenStringWithClose(Pending, AfterTag)) =>
            /\ pc' = "error"
            /\ result'.message = "unexpected close comment in string."
       /\ (AtPattern /\ RegexpWithClose(Pending, AfterTag)) =>
            /\ pc' = "error"
            /\ result'.message \in {"unexpected comment.",
                                    "unexpected close comment in regexp."}
       /\ (AtString
           /\ ClosingQuote(Pending, c, 2) # 0
           /\ HoldsClose(SubSeq(Pending, 1, ClosingQuote(Pending, c, 2)))) =>
            Went /\ CopiedThrough(ClosingQuote(Pending, c, 2))
       /\ (AtRegexp
           /\ RegexpEnd(Pending, 2, FALSE) # 0
           /\ HoldsClose(SubSeq(Pending, 1, RegexpEnd(Pending, 2, FALSE)))) =>
            Went /\ CopiedThrough(RegexpEnd(Pending, 2, FALSE))]_vars

\* /*l("*/ threw, and so would "*/" in a condition
C8_Witness ==
    /\ pc = "error"
    /\ source.val = <<"/", "*", "l", "(", "\"", "*", "/">>
    /\ result.message = "unexpected close comment in string."

-----------------------------------------------------------------------------
\* the index of the star of the first star slash of P from k on, 0 if there
\* is none
CloseFrom(P, k) ==
    IF \E j \in k..(Len(P) - 1) : P[j] = "*" /\ P[j + 1] = "/"
    THEN CHOOSE j \in k..(Len(P) - 1) :
            /\ P[j] = "*" /\ P[j + 1] = "/"
            /\ \A n \in k..(j - 1) : ~(P[n] = "*" /\ P[n + 1] = "/")
    ELSE 0

\* the text of P from k on, up to the first star slash if there is one
StuffText(P, k) ==
    SubSeq(P, k, IF CloseFrom(P, k) = 0 THEN Len(P) ELSE CloseFrom(P, k) - 1)

\* the depth never goes below zero in B
NonNegative(B) == \A i \in 1..Len(B) : Depth(SubSeq(B, 1, i)) >= 0

\* a pattern without a condition, whose stuff holds no literal
AtPlainStuff ==
    AtPattern /\ ~ParenFollows /\ Plain(StuffText(Pending, AfterTag))

(* C9  Balance requirement of the stuff.  A step of process() that starts  *)
(* at a pattern without a condition, whose stuff holds no literal, ends    *)
(* well exactly when a star slash comes with the depth, counted over       *)
(* parentheses, braces and brackets alike, at zero and never below zero    *)
(* before; it then deals with the input through that star slash.  A star   *)
(* slash at a positive depth, and a closer that takes the depth below      *)
(* zero, throw "Unbalanced stuff"; the end of the input before a star      *)
(* slash throws "Unterminated stuff.".                                     *)
C9_BalancedStuff ==
    [][AtPlainStuff =>
        IF ~NonNegative(StuffText(Pending, AfterTag))
        THEN pc' = "error" /\ result'.message = "Unbalanced stuff"
        ELSE IF CloseFrom(Pending, AfterTag) = 0
        THEN pc' = "error" /\ result'.message = "Unterminated stuff."
        ELSE IF Depth(StuffText(Pending, AfterTag)) > 0
        THEN pc' = "error" /\ result'.message = "Unbalanced stuff"
        ELSE /\ Went
             /\ Consumed = SubSeq(Pending, 1, CloseFrom(Pending, AfterTag) + 1)
       ]_vars

\* /*d (x*/ threw
C9_Witness ==
    /\ pc = "error"
    /\ source.val = <<"/", "*", "d", " ", "(", "x", "*", "/">>
    /\ result.message = "Unbalanced stuff"

-----------------------------------------------------------------------------
\* the lines "// <header>" of the headers hs, a line feed after every one
RECURSIVE HeaderLines(_)
HeaderLines(hs) ==
    IF hs = <<>> THEN <<>>
    ELSE <<"/", "/", " ">> \o Head(hs) \o <<"\n">> \o HeaderLines(Tail(hs))

\* what the comments argument asks for at the top of the output
HeaderText ==
    IF comments.kind = "string" THEN HeaderLines(<<comments.val>>)
    ELSE IF comments.kind = "array" THEN HeaderLines(comments.val)
    ELSE <<>>

(* C10  Header insertion.  The first step of a call writes one line        *)
(* "// <header>" for each header of the comments argument, in the given    *)
(* order, and nothing when the argument is absent or is neither a string   *)
(* nor an array, before any character of the source is read; every later   *)
(* step only adds to the output; and the text a call returns is the        *)
(* output, so that it begins with those lines.                             *)
C10_HeaderFirst ==
    [][/\ pc = "comments" =>
            Out' = HeaderText /\ line_nr' = -1 /\ c' = null
       /\ pc # "comments" => IsPrefix(Out, Out')
       /\ pc' = "done" =>
            result'.text = Out' /\ IsPrefix(HeaderText, result'.text)]_vars

\* /*d x*/ with the headers A and B came out as // A, // B, {x}
C10_Witness ==
    /\ pc = "done"
    /\ comments = ArrayArg(<< <<"A">>, <<"B">> >>)
    /\ declared = DefaultTags
    /\ source.val = <<"/", "*", "d", " ", "x", "*", "/">>
    /\ result.text = <<"/", "/", " ", "A", "\n", "/", "/", " ", "B", "\n",
                        "{", "x", "}", "\n">>

-----------------------------------------------------------------------------
\* the tags argument is no array, or one of its declarations is malformed
BadConfig ==
    \/ declared.kind # "array"
    \/ \E i \in 1..Len(declared.val) : ~ValidDecl(declared.val[i])

\* the first malformed declaration
FirstBad ==
    declared.val[CHOOSE i \in 1..Len(declared.val) :
                    /\ ~ValidDecl(declared.val[i])
                    /\ \A j \in 1..(i - 1) : ValidDecl(declared.val[j])]

(* C11  Configuration validation.  When the tags argument is no array or   *)
(* one of its declarations is neither tag nor tag:method, the call throws  *)
(* once the tags are inspected: no line of the source has been split off   *)
(* or read, the error has no line number (a line number of zero reads      *)
(* "bad tag"), and its message is the first malformed declaration, or      *)
(* "no tags" when there is no array.                                       *)
C11_BadConfigRejected ==
    (calls = <<>> /\ BadConfig /\ pc \notin {"comments", "tags"}) =>
        /\ pc = "error"
        /\ result.status = "throw"
        /\ result.lineno = 0
        /\ lines = <<>> /\ line_nr = -1 /\ ~line.str
        /\ c = null /\ preview = null
        /\ IF declared.kind = "array"
           THEN result.message = "value" /\ result.text = FirstBad
           ELSE result.message = "no tags"

\* the declaration "l: m", with a space, was refused
C11_Witness ==
    /\ pc = "error"
    /\ declared = ArrayArg(<< <<"d">>, <<"l", ":", " ", "m">> >>)
    /\ source.val # <<>>
    /\ result.lineno = 0
    /\ result.text = <<"l", ":", " ", "m">>

-----------------------------------------------------------------------------
(* C12  Purity across calls.  A second call with the same source and the   *)
(* same tags array ends as the first call did: it returns the same text,   *)
(* or throws the same error.                                               *)
C12_SameOutcome ==
    (Finished /\ calls # <<>>) => result = calls[1]

-----------------------------------------------------------------------------
\* how far a call is from its end: the steps before process(), then twice
\* the characters left to read, and the state of c
Rank ==
    IF Finished THEN 0
    ELSE IF pc = "process"
    THEN 2 * Len(Unread(St))
         + (IF c = null THEN 1 ELSE IF c = Zero THEN 3 ELSE 2)
    ELSE 2 * Len(source.val) + 5
         + (IF pc = "comments" THEN 4 ELSE IF pc = "tags" THEN 3
            ELSE IF pc = "source" THEN 2 ELSE 1)

\* the call has ended in one way: a text is returned, which is the joined
\* output, or an error is thrown and no text is returned
OneOutcome ==
    /\ pc = "done" =>
        result.status = "return" /\ result.text = Join(outputs)
    /\ pc = "error" => result.status = "throw"
    /\ ~Finished => result = NoResult

(* C13  Termination with one outcome.  Every call ends: each step takes it *)
(* nearer to its end, a call that has not ended can take a step, and it    *)
(* does end; it ends by returning the joined output or by throwing, never  *)
(* both, and once it has ended nothing more is read or written.            *)
C13_Terminates ==
    /\ [][Rank' < Rank /\ ~Finished]_vars
    /\ [](Finished \/ ENABLED Next)
    /\ [](OneOutcome)
    /\ <>Finished

\* a call that threw in the middle of the source, after writing some of it
C13_Witness ==
    /\ pc = "error"
    /\ result.status = "throw"
    /\ outputs # <<>>
    /\ line_nr >= 0

-----------------------------------------------------------------------------
\* the errors of a literal that the end of the input cut short
Truncated ==
    {"unterminated string literal.", "unterminated regexp literal.",
     "unterminated set in Regular Expression literal."}

\* the step threw one of them
CutShort == pc = "process" /\ pc' = "error" /\ result'.message \in Truncated

(* C14  Line number of a truncated literal.  When the end of the input is  *)
(* reached inside a string or a regexp, a set of the regexp included, the  *)
(* error names the line the literal began on: the line of the quote or the *)
(* slash for a literal of the top level, and for every literal a line of   *)
(* the input, at or after the one the step began on, never the line after  *)
(* the last, where the scan gave up.                                       *)
C14_LiteralLine ==
    [][CutShort =>
        /\ result'.lineno >= line_nr + 1
        /\ result'.lineno <= Len(lines)
        /\ (AtString \/ AtRegexp) => result'.lineno = line_nr + 1]_vars

\* the same, the sets of a regexp left aside
C14_OutsideSets ==
    [][(CutShort
        /\ result'.message # "unterminated set in Regular Expression literal.")
       =>
        /\ result'.lineno >= line_nr + 1
        /\ result'.lineno <= Len(lines)
        /\ (AtString \/ AtRegexp) => result'.lineno = line_nr + 1]_vars

-----------------------------------------------------------------------------
\* a text of plain characters and line breaks
PlainLines(t) == \A i \in 1..Len(t) : t[i] \in {"x", "\n", "\r"}

\* every line of ls, a line feed after each
WithLineFeeds(ls) == Join([k \in 1..Len(ls) |-> ls[k] \o <<"\n">>])

(* C15  Source forms.  A call on a text and a call on the lines of that    *)
(* text, split at its line breaks, end the same way: the same text is      *)
(* returned or the same error is thrown, whatever the tags and comments.   *)
(* A line feed, a carriage return and line feed, and a carriage return are *)
(* one line break each, and each is one line feed of the output (seen on   *)
(* a source of plain characters and line breaks, no header asked for).     *)
C15_SourceForms ==
    /\ (Finished /\ calls # <<>>) => result = calls[1]
    /\ (pc = "done" /\ source.kind = "string" /\ PlainLines(source.val)
        /\ comments = NoArg) =>
           result.text = WithLineFeeds(LinesOf(source.val))

\* the second call returned what the first did, for a source of three lines
C15_Witness ==
    /\ pc = "done"
    /\ calls # <<>>
    /\ source.kind = "array"
    /\ Len(source.val) = 3
    /\ \E k \in 1..3 : source.val[k] # <<>>
    /\ result = calls[1]

-----------------------------------------------------------------------------
\* the character right after the candidate tag, which unget() pushes back
PushedBack ==
    IF AfterTag <= Len(Pending) THEN <<Pending[AfterTag]>> ELSE <<>>

\* what expand() writes before stuff() reads: the brace, and the method and
\* its parenthesis if the first declaration of T has one
OpenBlock(T) ==
    <<"{">> \o (IF MethodFor(T) # <<>> THEN MethodFor(T) \o <<"(">> ELSE <<>>)

\* the first thing a step at a slash star writes.  A declared tag: if and
\* the pushed-back parenthesis, or else the open block and the pushed-back
\* character, which stuff() echoes unless it is a space or a star.  No
\* declared tag: the slash star, the run and the pushed-back character.
ExpectedHead ==
    IF Declares(CandTag)
    THEN IF ParenFollows THEN IfSp \o <<"(">>
         ELSE OpenBlock(CandTag)
              \o (IF PushedBack \in {<<" ">>, <<"*">>} THEN <<>>
                  ELSE PushedBack)
    ELSE SlashStar \o CandTag \o PushedBack

(* C16  Tag lookup.  After a slash star of the top level the candidate tag *)
(* is the longest run of letters, digits, underscore, dollar and period.   *)
(* The comment is expanded if and only if the run is not empty and is the  *)
(* name of a declared tag, the whole name; the character after the run is  *)
(* pushed back and is the first one the expander, or the echo of the       *)
(* comment, sees; and of several declarations of one name the first        *)
(* decides the method.                                                     *)
C16_TagLookup ==
    [][AtBlockComment => IsPrefix(ExpectedHead, Emitted)]_vars

\* d is declared twice, with a method and then without: /*d x*/ came out
\* with the method
C16_Witness ==
    /\ declared = ArrayArg(<< <<"d", ":", "m">>, <<"d">> >>)
    /\ pc = "process"
    /\ c = "\n"
    /\ Out = <<"{", "m", "(", "x", ")", ";", "}">>

-----------------------------------------------------------------------------
\* a is the end of b
IsTail(a, b) ==
    Len(a) <= Len(b) /\ a = SubSeq(b, Len(b) - Len(a) + 1, Len(b))

\* peek() on the record s gave a character: a second peek() gives the same
\* and reads nothing, and the get() after it gives that character, empties
\* the slot and leaves the line as it is
PeekThenGet(s) ==
    LET p == peek(s)
        g == get(p, FALSE)
    IN  p.preview # null =>
            /\ peek(p) = p
            /\ Unread(p) = Unread(s)
            /\ g.c = p.preview
            /\ g.preview = null
            /\ g.line = p.line
            /\ g.line_nr = p.line_nr
            /\ <<g.c>> \o Unread(g) = Unread(s)

(* C17  Lookahead.  One character at most is held back.  After peek() has  *)
(* given a character, more peeks give the same one and the next get()      *)
(* gives it too and reads nothing else.  unget() puts the character that   *)
(* ended the tag back into an empty slot: what is unread after it is the   *)
(* input from that character on.  So every step leaves, of the input it    *)
(* began with, a tail and nothing else, a shorter one unless the step is   *)
(* the one on the 0 that stands for a string just read: no character is    *)
(* lost and none comes twice, and a comment that is echoed is echoed       *)
(* character by character.                                                 *)
C17_Lookahead ==
    /\ [](preview = null \/ preview = "\n"
          \/ \E i \in 1..Len(source.val) : source.val[i] = preview)
    /\ [](pc = "process" => PeekThenGet(St))
    /\ [](AtBlockComment =>
            /\ TagScan.tag = CandTag
            /\ Unread(TagScan.s) = SubSeq(Pending, AfterTag, Len(Pending)))
    /\ [][Went =>
            /\ IsTail(Pending', Pending)
            /\ c # Zero => Len(Pending') < Len(Pending)]_vars
    /\ [][(AtBlockComment /\ ~Declares(CandTag) /\ Went) =>
            Emitted = Consumed]_vars

\* the comment /**/ was echoed: its star ended the empty tag, was put back
\* and was read again
C17_Witness ==
    /\ pc = "process"
    /\ c = "\n"
    /\ preview = null
    /\ Out = <<"/", "*", "*", "/">>

-----------------------------------------------------------------------------
\* the whole input, and the part of it that lies before the pending input
InputText == RestLines(0)
Before == SubSeq(InputText, 1, Len(InputText) - Len(Pending))

\* the last character of t that is not a space or a line end, null for none
LastNonSpace(t) ==
    IF \E i \in 1..Len(t) : t[i] \notin {" ", "\n", "\t"}
    THEN t[CHOOSE i \in 1..Len(t) :
               /\ t[i] \notin {" ", "\n", "\t"}
               /\ \A j \in (i + 1)..Len(t) : t[j] \in {" ", "\n", "\t"}]
    ELSE null

\* a slash of the top level that opens no comment
AtSlash ==
    /\ pc = "process"
    /\ c = "/"
    /\ Len(Pending) >= 2
    /\ Pending[2] \notin {"/", "*"}

\* the step took the slash for an operator: it wrote it and went on with
\* the next character
AsOperator == Went /\ Consumed = <<"/">> /\ Emitted = <<"/">>

(* C18  Regexp heuristic of the top level.  A slash of the top level that  *)
(* no slash and no star follows is echoed, and a regexp is skipped from it *)
(* exactly when the last character of the input before it that is not a   *)
(* space is one of ( , = : [ ! & | ? { } ; and otherwise the slash is an   *)
(* operator and the scan goes on with the next character, wherever the     *)
(* slash stands.                                                           *)
C18_RegexpHeuristic ==
    [][AtSlash =>
        /\ IsPrefix(<<"/">>, Emitted)
        /\ AsOperator <=> LastNonSpace(Before) \notin RegexpLeft]_vars

\* the text t is free of quotes and of comments
PlainBefore(t) ==
    /\ \A i \in 1..Len(t) : t[i] \notin Quotes
    /\ \A i \in 1..(Len(t) - 1) : ~(t[i] = "/" /\ t[i + 1] \in {"/", "*"})

\* the same for a slash that no string, no comment and no pattern precedes
C18_AfterPlainText ==
    [][(AtSlash /\ PlainBefore(Before)) =>
        /\ IsPrefix(<<"/">>, Emitted)
        /\ AsOperator <=> LastNonSpace(Before) \notin RegexpLeft]_vars

-----------------------------------------------------------------------------
\* a declared tag and right after it a quote: the stuff begins with a
\* string literal
InStuffString ==
    /\ AtPattern
    /\ AfterTag <= Len(Pending)
    /\ Pending[AfterTag] \in Quotes

\* the index in Pending of the quote that closes that string, 0 for none
StuffStringEnd == ClosingQuote(Pending, Pending[AfterTag], AfterTag + 1)

\* the string of the stuff was echoed whole, after the open block
StuffStringEchoed ==
    IsPrefix(OpenBlock(CandTag) \o SubSeq(Pending, AfterTag, StuffStringEnd),
             Emitted)

\* a string of the top level that has a closing quote is skipped through
\* the first quote that no backslash escapes, and echoed
TopStringSkipped ==
    (AtString /\ ClosingQuote(Pending, c, 2) > 0) =>
        Went /\ CopiedThrough(ClosingQuote(Pending, c, 2))

\* the first star of the string of the stuff that a slash follows, both
\* before the closing quote; 0 for none
RECURSIVE StarSlashFrom(_)
StarSlashFrom(i) ==
    IF i + 1 >= StuffStringEnd THEN 0
    ELSE IF Pending[i] = "*" /\ Pending[i + 1] = "/" THEN i
    ELSE StarSlashFrom(i + 1)

(* C19  Backslash in strings, as claimed.  In a string, of the top level   *)
(* or of a stuff, the character after a backslash is echoed and nothing    *)
(* else: it does not close the string and it is not looked at by the test  *)
(* for a star slash.  The string ends at the first quote that no backslash *)
(* escapes.                                                                *)
C19_EscapeInert ==
    [][/\ TopStringSkipped
       /\ (InStuffString /\ StuffStringEnd > 0
           /\ \A j \in (AfterTag + 1)..(StuffStringEnd - 2) :
                  (Pending[j] = "*" /\ Pending[j + 1] = "/")
                      => Pending[j - 1] = "\\")
          => StuffStringEchoed]_vars

(* C19  Backslash in strings, as the code has it.  At the top level the    *)
(* character after a backslash is echoed and nothing else, and the string  *)
(* ends at the first quote that no backslash escapes.  In a stuff the same *)
(* holds, but for a star, escaped or not, that a slash follows inside the  *)
(* string: there the step throws "unexpected close comment in string.",    *)
(* having echoed the string up to that star.                               *)
C19_EscapeButStar ==
    [][/\ TopStringSkipped
       /\ (InStuffString /\ StuffStringEnd > 0) =>
            IF StarSlashFrom(AfterTag + 1) = 0 THEN StuffStringEchoed
            ELSE /\ pc' = "error"
                 /\ result'.message = "unexpected close comment in string."
                 /\ Emitted = OpenBlock(CandTag)
                        \o SubSeq(Pending, AfterTag,
                                  StarSlashFrom(AfterTag + 1))]_vars

\* /*d"\*/"*/ threw at the escaped star
C19_Witness ==
    /\ pc = "error"
    /\ result.message = "unexpected close comment in string."
    /\ Out = <<"{", "\"", "\\", "*">>

-----------------------------------------------------------------------------
\* a declared tag and right after it a slash that no slash and no star
\* follows: the stuff begins with a regexp literal
InStuffRegexp ==
    /\ AtPattern
    /\ AfterTag + 1 <= Len(Pending)
    /\ Pending[AfterTag] = "/"
    /\ Pending[AfterTag + 1] \notin {"/", "*"}

\* the index in Pending of the slash that closes that regexp, 0 for none
StuffRegexpEnd == RegexpEnd(Pending, AfterTag + 1, FALSE)

\* no star of that regexp is followed by a slash, the closing one included
NoCloseInRegexp ==
    \A j \in (AfterTag + 1)..(StuffRegexpEnd - 1) :
        ~(Pending[j] = "*" /\ Pending[j + 1] = "/")

\* what the step has written when regexp() is through with its literal
RegexpEchoed ==
    OpenBlock(CandTag) \o SubSeq(Pending, AfterTag, StuffRegexpEnd)

(* C20  Regexp boundaries.  regexp() echoes what it reads and returns      *)
(* right after the first slash that no backslash escapes and that is not   *)
(* in a bracketed set; a slash in a set does not end the literal and an    *)
(* escaped bracket does not end the set.  At the top level whatever comes  *)
(* after the closing slash is left for the scan.  In a stuff a slash or a  *)
(* star right after the closing slash is "unexpected comment.", and any    *)
(* other character is read on by stuff().                                  *)
C20_RegexpBounds ==
    [][/\ (AtRegexp /\ RegexpEnd(Pending, 2, FALSE) > 0) =>
            Went /\ CopiedThrough(RegexpEnd(Pending, 2, FALSE))
       /\ (InStuffRegexp /\ StuffRegexpEnd > 0 /\ NoCloseInRegexp) =>
            IF Pending[StuffRegexpEnd + 1] \in {"/", "*"}
            THEN /\ pc' = "error"
                 /\ result'.message = "unexpected comment."
                 /\ Emitted = RegexpEchoed
            ELSE IsPrefix(RegexpEchoed \o <<Pending[StuffRegexpEnd + 1]>>,
                          Emitted)]_vars

\* /*d/[/]// threw after the closing slash: the slash in the set did not
\* end the literal
C20_Witness ==
    /\ pc = "error"
    /\ result.message = "unexpected comment."
    /\ Out = <<"{", "/", "[", "/", "]", "/">>

-----------------------------------------------------------------------------
\* the first index of P from i on where a slash star or a star slash
\* begins, 0 for none
RECURSIVE CommentEvent(_, _)
CommentEvent(P, i) ==
    IF i >= Len(P) THEN 0
    ELSE IF \/ P[i] = "/" /\ P[i + 1] = "*"
            \/ P[i] = "*" /\ P[i + 1] = "/"
    THEN i
    ELSE CommentEvent(P, i + 1)

\* the first such place of the comment at the head of the pending input,
\* looked for after the slash star and the run that may be a tag
EventAt == CommentEvent(Pending, AfterTag)

(* C21  Errors of an echoed comment.  A step at a slash star that no       *)
(* declared tag follows echoes the comment.  If a slash star comes first   *)
(* in it, the step throws "nested comment."; if the input ends before any  *)
(* star slash, it throws "unterminated comment."; otherwise it stops right *)
(* after the first star slash that lies after the opening slash star, the  *)
(* star of the opening not being part of it.                               *)
C21_CommentErrors ==
    [][AtComment =>
        IF EventAt = 0
        THEN /\ pc' = "error"
             /\ result'.message = "unterminated comment."
             /\ Emitted = Pending
        ELSE IF Pending[EventAt] = "/"
        THEN /\ pc' = "error"
             /\ result'.message = "nested comment."
             /\ Emitted = SubSeq(Pending, 1, EventAt + 1)
        ELSE Went /\ CopiedThrough(EventAt + 1)]_vars

\* /*/*/ threw: the slash after the opening did not close the comment, and
\* the star after it opened another
C21_Witness ==
    /\ pc = "error"
    /\ result.message = "nested comment."
    /\ Out = <<"/", "*", "/", "*">>

-----------------------------------------------------------------------------
\* P[i..e] holds a star that a slash follows
CloseWithin(P, i, e) ==
    \E j \in i..(e - 1) : P[j] = "*" /\ P[j + 1] = "/"

\* how a condition ends, read from P[i] on at depth d with lf the last
\* character that was not a space: "end" at the closer that brings the
\* depth to zero, "eof" when the input ends outside a literal, "literal"
\* when it ends inside one, "close" at a star slash outside a literal, and
\* "comment" for a slash star, a slash slash or a star slash that a literal
\* holds or touches
RECURSIVE CondEnd(_, _, _, _)
CondEnd(P, i, d, lf) ==
    IF i > Len(P) THEN [kind |-> "eof", at |-> 0]
    ELSE IF P[i] \in {"(", "{", "["} THEN CondEnd(P, i + 1, d + 1, P[i])
    ELSE IF P[i] \in {")", "}", "]"}
    THEN IF d - 1 = 0 THEN [kind |-> "end", at |-> i]
         ELSE CondEnd(P, i + 1, d - 1, P[i])
    ELSE IF P[i] \in Quotes
    THEN IF ClosingQuote(P, P[i], i + 1) = 0
         THEN IF CloseWithin(P, i + 1, Len(P))
              THEN [kind |-> "comment", at |-> 0]
              ELSE [kind |-> "literal", at |-> 0]
         ELSE IF CloseWithin(P, i + 1, ClosingQuote(P, P[i], i + 1) - 1)
         THEN [kind |-> "comment", at |-> 0]
         ELSE CondEnd(P, ClosingQuote(P, P[i], i + 1) + 1, d, P[i])
    ELSE IF P[i] = "/"
    THEN IF i < Len(P) /\ P[i + 1] \in {"/", "*"}
         THEN [kind |-> "comment", at |-> 0]
         ELSE IF lf \notin RegexpLeft THEN CondEnd(P, i + 1, d, "/")
         ELSE IF RegexpEnd(P, i + 1, FALSE) = 0
         THEN IF CloseWithin(P, i + 1, Len(P))
              THEN [kind |-> "comment", at |-> 0]
              ELSE [kind |-> "literal", at |-> 0]
         ELSE IF \/ CloseWithin(P, i + 1, RegexpEnd(P, i + 1, FALSE))
                 \/ /\ RegexpEnd(P, i + 1, FALSE) < Len(P)
                    /\ P[RegexpEnd(P, i + 1, FALSE) + 1] \in {"/", "*"}
         THEN [kind |-> "comment", at |-> 0]
         ELSE CondEnd(P, RegexpEnd(P, i + 1, FALSE) + 1, d, "/")
    ELSE IF P[i] = "*" /\ i < Len(P) /\ P[i + 1] = "/"
    THEN [kind |-> "close", at |-> i]
    ELSE CondEnd(P, i + 1, d,
                 IF P[i] \in {" ", "\n", "\t"} THEN lf ELSE P[i])

\* the condition at the head of the pending input, from its parenthesis on
CondHere == CondEnd(Pending, AfterTag, 0, "{")

\* "if " and the input from the parenthesis through the index j
IfThrough(j) == IfSp \o SubSeq(Pending, AfterTag, j)

-----------------------------------------------------------------------------
\* the number of stars of the text t
RECURSIVE Stars(_)
Stars(t) ==
    IF t = <<>> THEN 0
    ELSE (IF Head(t) = "*" THEN 1 ELSE 0) + Stars(Tail(t))

\* the index in Pending where the stuff begins: after the tag, or after
\* the closer of the condition
StuffFrom == IF ParenFollows THEN CondHere.at + 1 ELSE AfterTag

\* what expand() writes before the block: nothing, or if, the condition and
\* a space
Guard == IF ParenFollows THEN IfThrough(CondHere.at) \o <<" ">> ELSE <<>>

(* C23  Stars and leading spaces of a stuff.  Of the text between the tag  *)
(* or the condition and the closing star slash, a step that expands the    *)
(* comment drops the spaces it begins with, and only spaces: a line end or *)
(* a tab stays, and so do the spaces after it.  Every star of the comment  *)
(* but the one of the closing star slash is written once, and the closing  *)
(* star slash is not written.                                              *)
C23_StarsAndSpaces ==
    [][(AtPattern /\ Went) =>
        LET S == SubSeq(Consumed, StuffFrom, Len(Consumed) - 2) IN
        /\ SubSeq(Consumed, Len(Consumed) - 1, Len(Consumed)) = <<"*", "/">>
        /\ Emitted = Guard \o Block(MethodFor(CandTag), DropSpaces(S))
        /\ Stars(Emitted)
               = Stars(SubSeq(Consumed, AfterTag, Len(Consumed) - 2))]_vars

\* /*d x**/ came out as {x*}
C23_Witness ==
    /\ source.val = <<"/", "*", "d", " ", "x", "*", "*", "/">>
    /\ pc = "process"
    /\ Out = <<"{", "x", "*", "}">>

-----------------------------------------------------------------------------
\* what n calls of get(echo) in a row give, from the record s on
RECURSIVE Drain(_, _, _)
Drain(s, n, echo) ==
    IF n = 0 THEN <<>>
    ELSE Once(LAMBDA g : <<g.c>> \o Drain(g, n - 1, echo), get(s, echo))

\* the record after those n calls
RECURSIVE Drained(_, _, _)
Drained(s, n, echo) ==
    IF n = 0 THEN s
    ELSE Once(LAMBDA g : Drained(g, n - 1, echo), get(s, echo))

\* get() and peek() at the end of the input, e being the record there:
\* null again and again, and nothing written
SentinelAt(e) ==
    /\ peek(e).preview = null
    /\ peek(peek(e)).preview = null
    /\ peek(e).outputs = outputs
    /\ get(peek(e), TRUE).c = null
    /\ get(get(e, TRUE), TRUE).c = null
    /\ get(get(e, TRUE), TRUE).outputs = outputs

\* no line holds a quote or a slash
PlainSource ==
    \A k \in 1..Len(lines) : \A i \in 1..Len(lines[k]) :
        lines[k][i] \notin Quotes \cup {"/"}

(* C24  Shape of the character stream.  For a source of n lines, get()     *)
(* called again and again gives the characters of line 1 and a line feed,  *)
(* those of line 2 and a line feed, and so on, a line feed after every     *)
(* line, the last one and the empty ones too; then null, on every call of  *)
(* get() and of peek(), and nothing is echoed for it.  So a source with no *)
(* quote and no slash comes out as its lines, a line feed after each.      *)
C24_StreamShape ==
    /\ pc = "start" =>
        /\ Drain(St, Len(InputText) + 2, FALSE) = InputText \o <<null, null>>
        /\ Join(Drained(St, Len(InputText) + 2, TRUE).outputs)
               = Out \o InputText
        /\ SentinelAt(Drained(St, Len(InputText), FALSE))
    /\ (pc = "done" /\ PlainSource /\ comments = NoArg) =>
           result.text = WithLineFeeds(lines)

\* a source of two lines, the last one empty, came out with a line feed
\* after each
C24_Witness ==
    /\ pc = "done"
    /\ lines = << <<"x">>, <<>> >>
    /\ result.text = <<"x", "\n", "\n">>

-----------------------------------------------------------------------------
\* the errors thrown because the input ended
AtEndOfInput ==
    {"unterminated comment.", "Unterminated condition.",
     "Unterminated stuff.", "unterminated set in Regular Expression literal."}

\* a call threw while it was scanning the source
ThrewScanning == pc = "error" /\ lines # <<>>

(* C25  Reported line numbers exist.  An error thrown while a source of n  *)
(* lines is scanned names a line L, counted from 1, with 1 <= L <= n, also *)
(* when the input ended inside a comment, a condition or a stuff.          *)
C25_LineExists ==
    ThrewScanning =>
        result.lineno >= 1 /\ result.lineno <= Len(lines)

\* the same for the errors that are not thrown at the end of the input
C25_BeforeTheEnd ==
    (ThrewScanning /\ result.message \notin AtEndOfInput) =>
        result.lineno >= 1 /\ result.lineno <= Len(lines)

\* the errors thrown at the end of the input name a line after the last
C25_PastTheEnd ==
    (ThrewScanning /\ result.message \in AtEndOfInput) =>
        result.lineno > Len(lines)

-----------------------------------------------------------------------------
(* The module version, src/unnamed/part_000.  Its end of input and its    *)
(* empty preview are undefined, it writes return error(...), and in        *)
(* condition() and stuff() the end of the input is tested first.  Its      *)
(* routines are operators on the same record as those of the script        *)
(* version, with the field left for the left of process(); error, emit,    *)
(* unget, is_alphanum, pre_regexp, tagx and the split of the source read   *)
(* the same in both versions and are the operators above.  A call of the   *)
(* module version is one action.                                           *)

\* the end of input of get, an empty preview
undefined == "undefined"

\* tags.map(...) on the tag list as the caller wrote it
tags_m == tags_map(1, declared.val, <<>>)

\* lines, once the source is bust into them
lines_m ==
    IF source.kind = "string" THEN split(source.val, <<>>) ELSE source.val

\* a faulty emit: what is not a character is pushed as well
emitc_all(s, ch) == emit(s, <<ch>>)

\* emit(c) of one character; undefined and 0 are falsy and not pushed
emitc_m(s, ch) ==
    IF ch = undefined \/ ch = Zero THEN s ELSE emit(s, <<ch>>)

\* lines[i], undefined outside the array
LineAt_m(i) ==
    IF i >= 0 /\ i < Len(lines_m) THEN StrLine(lines_m[i + 1]) ELSE NoLine

\* get(), no character left in line: the line feed that ends a line held
\* as a string, or else the move to the next line ln, of number nr
next_line_m(s, nr, ln) ==
    IF ln.s = <<>>
    THEN [s EXCEPT !.line_nr = nr, !.line = NoLine,
                   !.c = IF ln.str THEN "\n" ELSE undefined]
    ELSE [s EXCEPT !.line_nr = nr, !.c = Head(ln.s),
                   !.line = StrLine(Tail(ln.s))]

\* get(): the character read is the record's c
advance_m(s) ==
    Once(LAMBDA v :
        IF v.preview # undefined
        THEN [v EXCEPT !.c = v.preview, !.preview = undefined]
        ELSE IF v.line.s = <<>>
        THEN IF v.line.str
             THEN [v EXCEPT !.c = "\n", !.line = NoLine]
             ELSE next_line_m(v, v.line_nr + 1, LineAt_m(v.line_nr + 1))
        ELSE [v EXCEPT !.c = Head(v.line.s), !.line = StrLine(Tail(v.line.s))], s)

\* get(): if (echo) { emit(c); } return c;
get_m(s, echo) ==
    Once(LAMBDA v :
        IF echo THEN emitc_m(v, v.c) ELSE v, advance_m(s))

\* peek(): preview = get(false), c being the caller's and kept; the value
\* is the record's preview
peek_m(s) ==
    Once(LAMBDA v :
        IF v.preview # undefined THEN v
        ELSE Once(LAMBDA g : [g EXCEPT !.preview = g.c, !.c = v.c],
                  get_m(v, FALSE)), s)

\* peek() as the last operand of in_comment && c === "*" && peek() === "/"
peek_if_star_m(s, in_comment) ==
    Once(LAMBDA v :
        IF in_comment /\ v.c = "*" THEN peek_m(v) ELSE v, s)

\* if (c === "\\") { c = get(true); }
escape_m(s) ==
    Once(LAMBDA v :
        IF v.c = "\\" THEN get_m(v, TRUE) ELSE v, s)

\* string(): the two tests that end an iteration
string_tests_m(s, in_comment, was) ==
    Once(LAMBDA v :
        IF in_comment /\ v.c = "*" /\ v.preview = "/"
        THEN error(v, "unexpected close comment in string.")
        ELSE IF v.c = undefined
        THEN error([v EXCEPT !.line_nr = was], "unterminated string literal.")
        ELSE v, s)

\* string(): an iteration, after c = get(true)
string_body_m(s, quote, in_comment, was) ==
    Once(LAMBDA v :
        IF v.c = quote THEN Return(v)
        ELSE string_tests_m(peek_if_star_m(escape_m(v), in_comment), in_comment, was), s)

\* string(): the loop; was is the line number at entry
RECURSIVE string_loop_m(_, _, _, _)
string_loop_m(s, quote, in_comment, was) ==
    IF Stopped(s) THEN Returned(s)
    ELSE Once(LAMBDA n : string_loop_m(n, quote, in_comment, was),
              string_body_m(get_m(s, TRUE), quote, in_comment, was))

string_m(s, quote, in_comment) ==
    Once(LAMBDA v :
        string_loop_m(v, quote, in_comment, v.line_nr), s)

\* regexp(), the loop over a bracketed set: the two tests that end an
\* iteration
regexp_set_tests_m(s, in_comment) ==
    Once(LAMBDA v :
        IF in_comment /\ v.c = "*" /\ v.preview = "/"
        THEN error(v, "unexpected close comment in regexp.")
        ELSE IF v.c = undefined
        THEN error(v, "unterminated set in Regular Expression literal.")
        ELSE v, s)

\* regexp(), the loop over a bracketed set: an iteration, after
\* c = get(true); ret is the break at the closing bracket
regexp_set_body_m(s, in_comment) ==
    Once(LAMBDA v :
        IF v.c = "]" THEN Return(v)
        ELSE regexp_set_tests_m(peek_if_star_m(escape_m(v), in_comment), in_comment), s)

RECURSIVE regexp_set_m(_, _)
regexp_set_m(s, in_comment) ==
    IF Stopped(s) THEN Returned(s)
    ELSE Once(LAMBDA n : regexp_set_m(n, in_comment),
              regexp_set_body_m(get_m(s, TRUE), in_comment))

\* regexp(): the two tests that end an iteration of the outer loop
regexp_tests_m(s, in_comment, was) ==
    Once(LAMBDA v :
        IF Failed(v) THEN v
        ELSE IF in_comment /\ v.c = "*" /\ v.preview = "/"
        THEN error(v, "unexpected comment.")
        ELSE IF v.c = undefined
        THEN error([v EXCEPT !.line_nr = was], "unterminated regexp literal.")
        ELSE v, s)

\* regexp(): the slash that ends the literal, after peek() if in_comment
regexp_end_m(s, in_comment) ==
    Once(LAMBDA v :
        IF in_comment /\ (v.preview = "/" \/ v.preview = "*")
        THEN error(v, "unexpected comment.")
        ELSE Return(v), s)

\* regexp(): the if/else chain on c of the outer loop; a set that threw
\* skips the tests
regexp_chain_m(s, in_comment) ==
    Once(LAMBDA v :
        IF v.c = "[" THEN regexp_set_m(v, in_comment)
        ELSE IF v.c = "\\" THEN get_m(v, TRUE)
        ELSE v, s)

\* regexp(): an iteration of the outer loop, after c = get(true)
regexp_body_m(s, in_comment, was) ==
    Once(LAMBDA v :
        IF v.c = "/"
        THEN regexp_end_m(IF in_comment THEN peek_m(v) ELSE v, in_comment)
        ELSE regexp_tests_m(peek_if_star_m(regexp_chain_m(v, in_comment), in_comment),
                          in_comment, was), s)

RECURSIVE regexp_loop_m(_, _, _)
regexp_loop_m(s, in_comment, was) ==
    IF Stopped(s) THEN Returned(s)
    ELSE Once(LAMBDA n : regexp_loop_m(n, in_comment, was),
              regexp_body_m(get_m(s, TRUE), in_comment, was))

regexp_m(s, in_comment) ==
    Once(LAMBDA v :
        regexp_loop_m(v, in_comment, v.line_nr), s)

\* a slash inside a condition or a stuff, after peek(): a comment is
\* refused, and regexp(true) follows one of pre_regexp
slash_m(s) ==
    Once(LAMBDA v :
        IF v.preview = "/" \/ v.preview = "*"
        THEN error(v, "unexpected comment.")
        ELSE IF pre_regexp(v.lf) THEN regexp_m(v, TRUE) ELSE v, s)

\* condition(): } else if (c === "*" && peek() === "/") {
condition_star_m(s) ==
    Once(LAMBDA v :
        IF v.preview = "/" THEN error(v, "unclosed condition.") ELSE v, s)

\* condition(): an iteration, after c = get(true); the end of the input
\* is the first test
condition_body_m(s, ch) ==
    Once(LAMBDA v :
        IF ch = undefined
        THEN error(v, "Unterminated condition.")
        ELSE IF IsOpener(ch)
        THEN SetLeft(AddParen(v, 1), ch)
        ELSE IF IsCloser(ch)
        THEN IF v.paren - 1 = 0 THEN Return(AddParen(v, -1))
             ELSE SetLeft(AddParen(v, -1), ch)
        ELSE IF IsQuote(ch)
        THEN SetLeft(string_m(v, ch, TRUE), ch)
        ELSE IF ch = "/"
        THEN SetLeft(slash_m(peek_m(v)), ch)
        ELSE IF ch = "*"
        THEN SetLeft(condition_star_m(peek_m(v)), ch)
        ELSE SetLeft(v, ch), s)

\* condition(): c = get(true), and the rest of the iteration
condition_step_m(s) ==
    Once(LAMBDA v :
        condition_body_m(v, v.c), get_m(s, TRUE))

RECURSIVE condition_loop_m(_)
condition_loop_m(s) ==
    IF Stopped(s) THEN Returned(s)
    ELSE Once(condition_loop_m, condition_step_m(s))

condition_m(s) ==
    Once(LAMBDA v :
        condition_loop_m([v EXCEPT !.lf = "{", !.paren = 0]), s)

\* stuff(): while (peek() === " ") { get(false); }, after peek()
RECURSIVE stuff_spaces_m(_)
stuff_spaces_m(s) ==
    IF s.preview = " " THEN Once(stuff_spaces_m, peek_m(get_m(s, FALSE))) ELSE s

\* stuff(): the star slash that ends the stuff, after get(false)
stuff_end_m(s) ==
    Once(LAMBDA v :
        IF v.paren > 0 THEN error(v, "Unbalanced stuff") ELSE Return(v), s)

\* stuff(): a star was read by get(false), and peek() looked after it
stuff_star_m(s) ==
    Once(LAMBDA v :
        IF v.preview = "/" THEN stuff_end_m(get_m(v, FALSE)) ELSE emit(v, <<"*">>), s)

\* stuff(): a closing bracket, after paren -= 1
stuff_closer_m(s, ch) ==
    Once(LAMBDA v :
        IF v.paren < 0 THEN error(v, "Unbalanced stuff") ELSE SetLeft(v, ch), s)

\* stuff(): an iteration, after the loop over stars and c = get(true); the
\* end of the input is a test of its own, ahead of the others
stuff_body_m(s, ch) ==
    Once(LAMBDA v :
        IF ch = undefined
        THEN error(v, "Unterminated stuff.")
        ELSE IF IsQuote(ch)
        THEN SetLeft(string_m(v, ch, TRUE), ch)
        ELSE IF IsOpener(ch)
        THEN SetLeft(AddParen(v, 1), ch)
        ELSE IF IsCloser(ch)
        THEN stuff_closer_m(AddParen(v, -1), ch)
        ELSE IF ch = "/"
        THEN SetLeft(slash_m(peek_m(v)), ch)
        ELSE SetLeft(v, ch), s)

\* stuff(): c = get(true), and the rest of the iteration
stuff_with_c_m(s) ==
    Once(LAMBDA v :
        stuff_body_m(v, v.c), get_m(s, TRUE))

\* stuff(): one round of the loop over stars, which opens every iteration
\* of the outer loop, or else the rest of that iteration; after peek()
stuff_round_m(s) ==
    Once(LAMBDA v :
        IF v.preview = "*" THEN stuff_star_m(peek_m(get_m(v, FALSE)))
        ELSE stuff_with_c_m(v), s)

RECURSIVE stuff_loop_m(_)
stuff_loop_m(s) ==
    IF Stopped(s) THEN Returned(s)
    ELSE Once(stuff_loop_m, stuff_round_m(peek_m(s)))

stuff_m(s) ==
    Once(LAMBDA v :
        stuff_loop_m(stuff_spaces_m(peek_m([v EXCEPT !.lf = "{", !.paren = 0]))), s)

\* methods[tag_nr]; <<>> stands for undefined (a method is never empty)
MethodOf_m(tag_nr) == tags_m.methods[tag_nr + 1]

\* what expand() emits before and after stuff()
StuffOpen_m(tag_nr) ==
    IF MethodOf_m(tag_nr) # <<>> THEN MethodOf_m(tag_nr) \o <<"(">> ELSE <<>>

StuffClose_m(tag_nr) ==
    IF MethodOf_m(tag_nr) # <<>> THEN CloseCall ELSE <<"}">>

\* then stuff(), unless an exception is on its way
then_stuff_m(s) ==
    Once(LAMBDA v :
        IF Failed(v) THEN v ELSE stuff_m(v), s)

\* expand(): if (c === "(") { emit("if "); condition(); emit(" "); }
guard_m(s) ==
    Once(LAMBDA v :
        IF v.preview = "("
        THEN then_emit(condition_m(emit(v, IfSp)), <<" ">>)
        ELSE v, s)

expand_m(s, tag_nr) ==
    then_emit(
        then_stuff_m(
            then_emit(then_emit(guard_m(peek_m(s)), <<"{">>), StuffOpen_m(tag_nr))),
        StuffClose_m(tag_nr))

\* the loop that echoes a slash slash comment, after c = get(true)
RECURSIVE line_comment_m(_)
line_comment_m(s) ==
    IF s.c = "\n" \/ s.c = "\r" \/ s.c = undefined THEN s
    ELSE Once(line_comment_m, get_m(s, TRUE))

\* the loop that collects the tag, after c = get(false); the record's c is
\* the character that ended it
RECURSIVE read_tag_m(_, _)
read_tag_m(s, tag) ==
    IF ~is_alphanum(s.c) THEN [ok |-> TRUE, s |-> unget(s, s.c), tag |-> tag]
    ELSE Once(LAMBDA n : read_tag_m(n, Append(tag, s.c)), get_m(s, FALSE))

\* the loop that echoes a comment whose tag did not match: an iteration
\* on the character was, after c = get(true)
comment_body_m(s, was) ==
    IF was = "/" /\ s.c = "*" THEN error(s, "nested comment.")
    ELSE IF was = "*" /\ s.c = "/" THEN Return(s)
    ELSE s

comment_step_m(s) ==
    IF s.c = undefined THEN error(s, "unterminated comment.")
    ELSE comment_body_m(get_m(s, TRUE), s.c)

RECURSIVE comment_loop_m(_)
comment_loop_m(s) ==
    IF Stopped(s) THEN Returned(s) ELSE Once(comment_loop_m, comment_step_m(s))

\* after peek(): on a star, get(false), the tag loop and unget(c)
tag_scan_m(s) ==
    IF s.preview # "*" THEN [ok |-> FALSE, s |-> s, tag |-> <<>>]
    ELSE read_tag_m(get_m(get_m(s, FALSE), FALSE), <<>>)

\* i = (!tag) ? -1 : tags.indexOf(tag)
TagIndex_m(tag) == IF tag = <<>> THEN -1 ELSE indexOf(tags_m.tags, tag)

\* c = get(false) at the end of an iteration, unless an exception is on
\* its way
resume_m(s) ==
    Once(LAMBDA v :
        IF Failed(v) THEN v ELSE get_m(v, FALSE), s)

\* process(): a quote; the string literal is echoed, and c = 0
process_string_m(s) ==
    Once(LAMBDA v :
        [string_m(emitc_m(v, v.c), v.c, FALSE) EXCEPT !.c = Zero], s)

\* process(): slash star, t being the tag that was read
process_tagged_m(t) ==
    Once(LAMBDA r :
        IF TagIndex_m(r.tag) >= 0
        THEN resume_m(expand_m(r.s, TagIndex_m(r.tag)))
        ELSE resume_m(comment_loop_m(emit(emit(r.s, SlashStar), r.tag))), t)

\* process(): a single slash; a regexp literal after one of pre_regexp
process_single_m(s) ==
    Once(LAMBDA v :
        [resume_m(IF pre_regexp(v.left) THEN regexp_m(emit(v, <<"/">>), FALSE)
                  ELSE emit(v, <<"/">>)) EXCEPT !.left = "/"], s)

\* process(): a slash, after peek()
process_slash_m(s) ==
    Once(LAMBDA v :
        IF v.preview = "/"
        THEN resume_m(line_comment_m(get_m(emit(v, <<"/">>), TRUE)))
        ELSE IF v.preview = "*" THEN process_tagged_m(tag_scan_m(v))
        ELSE process_single_m(v), s)

\* process(): nothing special; the character is echoed
process_other_m(s) ==
    Once(LAMBDA v :
        [get_m(emitc_m(v, v.c), FALSE)
            EXCEPT !.left = IF GtSpace(v.c) THEN v.c ELSE v.left], s)

\* process(): one iteration of the loop
process_step_m(s) ==
    Once(LAMBDA v :
        IF IsQuote(v.c) THEN process_string_m(v)
        ELSE IF v.c = "/" THEN process_slash_m(peek_m(v))
        ELSE process_other_m(v), s)

\* process(): the loop, which breaks at the end of the input
RECURSIVE process_loop_m(_)
process_loop_m(s) ==
    IF Failed(s) \/ s.c = undefined THEN s
    ELSE Once(process_loop_m, process_step_m(s))

\* the comments at the top of the output
head_m ==
    IF comments.kind = "string"
    THEN <<HeadPrefix \o comments.val \o <<"\n">> >>
    ELSE IF comments.kind = "array"
    THEN [i \in 1..Len(comments.val) |->
              HeadPrefix \o comments.val[i] \o <<"\n">>]
    ELSE <<>>

\* the closure's variables when process() is called
St_m == [line |-> NoLine, line_nr |-> -1, preview |-> undefined,
         outputs |-> head_m, c |-> undefined, err |-> "", errline |-> 0,
         ret |-> FALSE, lf |-> undefined, paren |-> 0, left |-> Zero]

\* process(): let c = get(false); let left = 0; and the loop
process_m(s) == process_loop_m(get_m(s, FALSE))

\* process(); return outputs.join(""), or the exception on its way
outcome_m(s) ==
    IF Failed(s) THEN Throw(s)
    ELSE [status |-> "return", text |-> Join(s.outputs), lineno |-> 0,
          message |-> ""]

\* what jsdev(source, tags, comments) of the module version gives its
\* caller
jsdev_m ==
    IF declared.kind # "array"
    THEN [status |-> "throw", text |-> <<>>, lineno |-> 0,
          message |-> "no tags"]
    ELSE IF tags_m.threw
    THEN [status |-> "throw", text |-> tags_m.bad, lineno |-> 0,
          message |-> "value"]
    ELSE Once(outcome_m, process_m(St_m))

\* a call of the module version, with the arguments of the call of the
\* script version that has ended: the same source, the same comments and
\* the tag list as the caller wrote it
Module ==
    /\ pc \in {"done", "error"}
    /\ calls' = Append(calls, result)
    /\ result' = jsdev_m
    /\ tags' = IF declared.kind = "array"
               THEN [declared EXCEPT !.val = tags_m.tags] ELSE declared
    /\ pc' = "module"
    /\ UNCHANGED <<source, comments, lines, line, line_nr, methods, outputs,
                   preview, c, left, declared>>

NextBoth == Next \/ Resplit \/ Module

SpecBoth == Init /\ [][NextBoth]_vars

\* the outcome of the script version on the arguments of the module call
ScriptOutcome == calls[Len(calls)]

\* C26: the script version and the module version agree: on the same
\* source, given as a text or as its lines, the same tags and the same
\* comments, both return the same output text or both throw an error of
\* the same message, line number included.
C26_VersionsAgree ==
    pc = "module" => result = ScriptOutcome

\* the input ends inside a condition, the source being an array of
\* lines: both versions say so
C26_Witness ==
    /\ pc = "module"
    /\ source.kind = "array"
    /\ result = ScriptOutcome
    /\ result.status = "throw"
    /\ result.message = "Unterminated condition."

=============================================================================
